---------------------------- MODULE Spec2Model ----------------------------
(***************************************************************************)
(* Model of the fetch layer of us-statutes: the disk-backed HTTP cache     *)
(* (pipeline/utils/cache.py), the rate limiter                             *)
(* (pipeline/utils/rate_limiter.py) and the retry loops of the ingestors   *)
(* (official_website.py, justia.py).                                       *)
(*                                                                         *)
(* A body is a sequence of tokens.  "cr" and "lf" are the characters       *)
(* U+000D and U+000A, "pad" is a run of 500 ordinary characters and "cf"   *)
(* is a Cloudflare challenge marker such as "Just a moment".               *)
(***************************************************************************)
EXTENDS Integers, Sequences, FiniteSets, TLC

VARIABLES
    now,        \* cache: value of time.time(), in units of one ttl
    textFile,   \* cache: <key>.json, the text body file of each url
    binFile,    \* cache: <key>.bin, the binary body file of each url
    metaFile,   \* cache: <key>.meta.json, shared by text and binary entry
    call,       \* cache: the HttpCache call that has just returned, if any
    textAt,     \* cache: time at which textFile[u] was last written
    lastPut,    \* cache: body passed to put(u, ..) if no write followed it
    clock,      \* limiter: value of time.monotonic(), in units of 1/rate s
    timestamps, \* limiter: RateLimiter._timestamps, oldest first
    waits,      \* limiter: the wait() calls that have returned, in order
    pc,         \* limiter: where each concurrent caller is inside wait()
    tnow,       \* limiter: the local variable now of each caller
    tuntil,     \* limiter: the local variable sleep_until of each caller
    lost,       \* limiter: a timestamp inside the window was popped
    mode,       \* limiter: callers are "threads" (wait) or "tasks" (async_wait)
    retry,      \* retry: the running _fetch_page / _fetch_with_retry call
    sectionFile,\* sections: cache/sections/<key>.html of each url
    fae,        \* sections: the running or last fetch_and_extract call
    race,       \* cache: workers inside put / get_cached at the same time
    store,      \* content: the "sections" list of one content chapter file
    mop,        \* content: the persistence operation that has just returned
    job,        \* cli: the running ingest command
    out_data,   \* cli: the data directory the ingest command writes to
    raw,        \* raw: cache/raw/<state> of one jurisdiction
    fcall,      \* raw: the fetch() call of its ingestor that has just ended
    presult,    \* parse: the parse() call that has ended, with its input
    disk,       \* tree: the data directory of one jurisdiction
    ext,        \* extract: the documents parsed and the section records built
    batch,      \* batch: the running run_batch_fetch script
    pool        \* pool: the futures of one process_state call

cacheVars == <<now, textFile, binFile, metaFile, call, textAt, lastPut>>

limVars == <<clock, timestamps, waits, pc, tnow, tuntil, lost, mode>>

secVars == <<sectionFile, fae>>

mergeVars == <<store, mop>>

cliVars == <<job, out_data>>

rawVars == <<raw, fcall>>

vars ==
    <<cacheVars, limVars, retry, secVars, race, mergeVars, cliVars, rawVars,
      presult, disk, ext, batch, pool>>

\* what the actions of one part of the program leave alone
offCache ==
    <<limVars, retry, secVars, race, mergeVars, cliVars, rawVars, presult,
      disk, ext, batch, pool>>

offLimiter ==
    <<cacheVars, retry, secVars, race, mergeVars, cliVars, rawVars, presult,
      disk, ext, batch, pool>>

offRetry ==
    <<limVars, secVars, race, mergeVars, cliVars, rawVars, presult, disk,
      ext, batch, pool>>

offSections ==
    <<cacheVars, limVars, retry, race, mergeVars, cliVars, rawVars, presult,
      disk, ext, batch, pool>>

offRace ==
    <<cacheVars, limVars, retry, secVars, mergeVars, cliVars, rawVars,
      presult, disk, ext, batch, pool>>

offMerge ==
    <<cacheVars, limVars, retry, secVars, race, cliVars, rawVars, presult,
      disk, ext, batch, pool>>

offCli ==
    <<cacheVars, limVars, retry, secVars, race, mergeVars, rawVars, presult,
      disk, ext, batch, pool>>

offRaw ==
    <<limVars, retry, secVars, race, mergeVars, cliVars, presult, disk, ext,
      batch, pool>>

offParse ==
    <<cacheVars, limVars, retry, secVars, race, mergeVars, cliVars, rawVars,
      disk, ext, batch, pool>>

offDisk ==
    <<cacheVars, limVars, retry, secVars, race, mergeVars, cliVars, rawVars,
      presult, ext, batch, pool>>

offExtract ==
    <<cacheVars, limVars, retry, secVars, race, mergeVars, cliVars, rawVars,
      presult, disk, batch, pool>>

offBatch ==
    <<cacheVars, limVars, retry, secVars, race, mergeVars, cliVars, rawVars,
      presult, disk, ext, pool>>

offPool ==
    <<cacheVars, limVars, retry, secVars, race, mergeVars, cliVars, rawVars,
      presult, disk, ext, batch>>

---------------------------------------------------------------------------
(* Bounds of the model *)

MaxTime == 3        \* the clock runs from 0 to MaxTime
Ttl == 1            \* HttpCache.ttl, in clock units
MaxBodyLen == 2     \* longest body, in tokens
MaxClock == 4       \* the monotonic clock runs from 0 to MaxClock
MaxCalls == 5       \* wait() calls made on one RateLimiter by one caller
MaxConcCalls == 4   \* wait() calls made on one RateLimiter by all callers
Burst == 2          \* RateLimiter.burst
MaxPuts == 2        \* put() calls made on one HttpCache by all workers
MaxSections == 2    \* sections a parse puts into one chapter
MaxIncoming == 1    \* section tuples handed to one merge call
MaxStates == 2      \* jurisdictions listed in sources.yaml
MaxFetches == 3     \* fetch() calls made for one jurisdiction
MaxDirs == 2        \* title directories in one raw directory
MaxFiles == 2       \* chapter or section files in one title directory
MaxTitles == 2      \* Titles one parse() finds before merging them
MaxChapters == 2    \* Chapters of one parsed Title
MaxRuns == 2        \* runs that write into one data directory
MaxElements == 2    \* elements of one HTML document
MaxFutures == 2     \* futures one process_state call submits

Callers == {"t1", "t2"}

Urls == {"u1"}

Tokens == {"cr", "lf", "pad", "cf"}

Bodies == UNION {[1..n -> Tokens] : n \in 0..MaxBodyLen}

\* the contents of binary downloads (Response.content), opaque bytes
BinBodies == {<<>>, <<"b1">>, <<"b2">>}

\* Python's None, and a file that does not exist
None == <<"None">>
NoFile == <<"NoFile">>

NoMeta == [exists |-> FALSE, timestamp |-> 0, status_code |-> 0]

---------------------------------------------------------------------------
(* Text files: Path.write_text / Path.read_text open the file in text mode *)
(* with newline=None.                                                      *)

\* os.linesep on a POSIX host
LineSep == <<"lf">>

RECURSIVE WriteText(_)
\* write_text: every "\n" of the string is written as os.linesep
WriteText(s) ==
    IF s = <<>> THEN <<>>
    ELSE (IF Head(s) = "lf" THEN LineSep ELSE <<Head(s)>>) \o WriteText(Tail(s))

RECURSIVE ReadText(_)
\* read_text: universal newlines, "\r\n" and "\r" are read as "\n"
ReadText(b) ==
    IF b = <<>> THEN <<>>
    ELSE IF Head(b) = "cr"
         THEN IF Len(b) >= 2 /\ b[2] = "lf"
              THEN <<"lf">> \o ReadText(Tail(Tail(b)))
              ELSE <<"lf">> \o ReadText(Tail(b))
         ELSE <<Head(b)>> \o ReadText(Tail(b))

---------------------------------------------------------------------------
(* httpx.get and Response.raise_for_status *)

Statuses == {200, 404, 503}

\* Response.is_success
IsSuccess(status_code) == 200 <= status_code /\ status_code <= 299

\* what httpx.get(url) can do: raise a transport error (status_code 0), or
\* return a response; the body of an error response is never read
HttpOutcomes(bodies) ==
    {[kind |-> "error", status_code |-> 0, body |-> <<>>]} \cup
    {[kind |-> "response", status_code |-> s, body |-> b] :
        s \in {x \in Statuses : IsSuccess(x)}, b \in bodies} \cup
    {[kind |-> "response", status_code |-> s, body |-> <<>>] :
        s \in {x \in Statuses : ~IsSuccess(x)}}

\* a fetch that leaves out raise_for_status
RaisedByTransportOnly(resp) ==
    IF resp.kind = "error" THEN "ConnectError" ELSE "none"

\* the exception httpx.get / raise_for_status raise for this outcome
RaisedBy(resp) ==
    IF resp.kind = "error" THEN "ConnectError"
    ELSE IF ~IsSuccess(resp.status_code) THEN "HTTPStatusError"
    ELSE "none"

---------------------------------------------------------------------------
(* HttpCache *)

\* an age test that already expires an entry of age ttl
ExpiredAtTtl(meta, t) == t - meta.timestamp >= Ttl

\* get_cached: the age test of the metadata timestamp
Expired(meta, t) == t - meta.timestamp > Ttl

\* get_cached(url): the cached body if valid, else None
GetCachedResult(u) ==
    IF ~metaFile[u].exists \/ textFile[u] = NoFile THEN None
    ELSE IF Expired(metaFile[u], now) THEN None
    ELSE ReadText(textFile[u])

\* fetch_bytes: its own cache test on <key>.bin and the shared metadata
BinCachedResult(u) ==
    IF metaFile[u].exists /\ binFile[u] # NoFile
    THEN IF now - metaFile[u].timestamp <= Ttl THEN binFile[u] ELSE None
    ELSE None

\* the metadata put and fetch_bytes write
NewMeta(status_code) ==
    [exists |-> TRUE, timestamp |-> now, status_code |-> status_code]

CallRec(op, u, ret, exc, events, resp) ==
    [op |-> op, url |-> u, ret |-> ret, exc |-> exc, events |-> events,
     status |-> resp.status_code]

\* no call has returned in this state
NoCall == [op |-> "none", url |-> "u1", ret |-> None, exc |-> "none",
           events |-> <<>>, status |-> 0]

NoResponse == [kind |-> "none", status_code |-> 0, body |-> <<>>]

\* put(url, body, status_code) as called from outside the class
put(u, body, status_code) ==
    /\ textFile' = [textFile EXCEPT ![u] = WriteText(body)]
    /\ metaFile' = [metaFile EXCEPT ![u] = NewMeta(status_code)]
    /\ textAt' = [textAt EXCEPT ![u] = now]
    /\ lastPut' = [lastPut EXCEPT ![u] = body]
    /\ call' = CallRec("put", u, None, "none", <<>>, NoResponse)
    /\ UNCHANGED <<now, binFile>>

get_cached(u) ==
    /\ call' = CallRec("get_cached", u, GetCachedResult(u), "none", <<>>,
                       NoResponse)
    /\ UNCHANGED <<now, textFile, binFile, metaFile, textAt, lastPut>>

\* a miss path that goes to the network without rate_limiter.wait()
MissEventsNoWait == <<"request">>

\* the events of the miss path of fetch and fetch_bytes
MissEvents == <<"wait", "request">>

\* fetch(url)
fetch(u) ==
    LET cached == GetCachedResult(u) IN
    IF cached # None
    THEN /\ call' = CallRec("fetch", u, cached, "none", <<>>, NoResponse)
         /\ UNCHANGED <<now, textFile, binFile, metaFile, textAt, lastPut>>
    ELSE \E resp \in HttpOutcomes(Bodies) :
           IF RaisedBy(resp) # "none"
           THEN /\ call' = CallRec("fetch", u, None, RaisedBy(resp),
                                   MissEvents, resp)
                /\ UNCHANGED <<now, textFile, binFile, metaFile, textAt,
                               lastPut>>
           ELSE /\ textFile' = [textFile EXCEPT ![u] = WriteText(resp.body)]
                /\ metaFile' = [metaFile EXCEPT
                                   ![u] = NewMeta(resp.status_code)]
                /\ textAt' = [textAt EXCEPT ![u] = now]
                /\ lastPut' = [lastPut EXCEPT ![u] = None]
                /\ call' = CallRec("fetch", u, resp.body, "none",
                                   MissEvents, resp)
                /\ UNCHANGED <<now, binFile>>

\* fetch_bytes(url)
fetch_bytes(u) ==
    LET cached == BinCachedResult(u) IN
    IF cached # None
    THEN /\ call' = CallRec("fetch_bytes", u, cached, "none", <<>>,
                            NoResponse)
         /\ UNCHANGED <<now, textFile, binFile, metaFile, textAt, lastPut>>
    ELSE \E resp \in HttpOutcomes(BinBodies) :
           IF RaisedBy(resp) # "none"
           THEN /\ call' = CallRec("fetch_bytes", u, None, RaisedBy(resp),
                                   MissEvents, resp)
                /\ UNCHANGED <<now, textFile, binFile, metaFile, textAt,
                               lastPut>>
           ELSE /\ binFile' = [binFile EXCEPT ![u] = resp.body]
                /\ metaFile' = [metaFile EXCEPT
                                   ![u] = NewMeta(resp.status_code)]
                /\ lastPut' = [lastPut EXCEPT ![u] = None]
                /\ call' = CallRec("fetch_bytes", u, resp.body, "none",
                                   MissEvents, resp)
                /\ UNCHANGED <<now, textFile, textAt>>

\* time.time() advances
Tick ==
    /\ now < MaxTime
    /\ now' = now + 1
    /\ call' = NoCall
    /\ UNCHANGED <<textFile, binFile, metaFile, textAt, lastPut>>

CacheStart ==
    /\ now = 0
    /\ textFile = [u \in Urls |-> NoFile]
    /\ binFile = [u \in Urls |-> NoFile]
    /\ metaFile = [u \in Urls |-> NoMeta]
    /\ textAt = [u \in Urls |-> 0]
    /\ lastPut = [u \in Urls |-> None]
    /\ call = NoCall

---------------------------------------------------------------------------
(* The retry loops: OfficialWebsiteIngestor._fetch_page and              *)
(* JustiaIngestor._fetch_with_retry, both around HttpCache.fetch         *)

max_retries == 3        \* self.max_retries
page_delay == 3         \* _fetch_page: delay = 3 * (2 ** attempt)
retry_delay == 5        \* JustiaIngestor.retry_delay

RetryKinds == {"_fetch_page", "_fetch_with_retry"}

NoError == [attempt |-> -1, exc |-> "none"]

RetryIdle ==
    [pc |-> "idle", kind |-> "_fetch_page", url |-> "u1", attempt |-> 0,
     outs |-> <<>>, sleeps |-> <<>>, events |-> <<>>,
     last_error |-> NoError, result |-> None, raised |-> NoError]

\* a backoff that does not grow
BackoffConstant(kind, attempt) ==
    IF kind = "_fetch_page" THEN page_delay ELSE retry_delay

\* delay = base * (2 ** attempt)
Backoff(kind, attempt) ==
    IF kind = "_fetch_page"
    THEN page_delay * (2 ^ attempt)
    ELSE retry_delay * (2 ^ attempt)

\* _fetch_page after one self.http_cache.fetch(url) that ended as c
FetchPageStep(r, c) ==
    LET e == [attempt |-> r.attempt, exc |-> c.exc]
        r1 == [r EXCEPT !.outs = Append(@, e), !.events = @ \o c.events]
    IN  IF c.exc = "none"
        THEN [r1 EXCEPT !.pc = "returned", !.result = c.ret]
        ELSE IF r.attempt < max_retries - 1
        THEN [r1 EXCEPT !.sleeps = Append(@, Backoff(r.kind, r.attempt)),
                        !.events = @ \o <<"sleep">>,
                        !.attempt = @ + 1]
        ELSE [r1 EXCEPT !.pc = "raised", !.raised = e]

\* _fetch_with_retry after one self.http_cache.fetch(url) that ended as c
FetchWithRetryStep(r, c) ==
    LET e == [attempt |-> r.attempt, exc |-> c.exc]
        r1 == [r EXCEPT !.outs = Append(@, e), !.events = @ \o c.events]
    IN  IF c.exc = "none"
        THEN [r1 EXCEPT !.pc = "returned", !.result = c.ret]
        ELSE LET r2 == [r1 EXCEPT !.last_error = e]
                 r3 == IF r.attempt < max_retries - 1
                       THEN [r2 EXCEPT
                               !.sleeps = Append(@, Backoff(r.kind, r.attempt)),
                               !.events = @ \o <<"sleep">>]
                       ELSE r2
             IN  IF r.attempt + 1 < max_retries
                 THEN [r3 EXCEPT !.attempt = @ + 1]
                 ELSE [r3 EXCEPT !.pc = "raised", !.raised = r3.last_error]

\* _fetch_page(url) or _fetch_with_retry(url) is called
retry_start(kind, u) ==
    /\ retry.pc # "try"
    /\ retry' = [RetryIdle EXCEPT !.pc = "try", !.kind = kind, !.url = u]
    /\ UNCHANGED cacheVars

\* one iteration of the loop: the try block and its except clause
retry_attempt ==
    /\ retry.pc = "try"
    /\ fetch(retry.url)
    /\ retry' = IF retry.kind = "_fetch_page"
                THEN FetchPageStep(retry, call')
                ELSE FetchWithRetryStep(retry, call')

---------------------------------------------------------------------------
(* RateLimiter, one caller: wait() runs from start to end undisturbed *)

\* window = 1.0 / self.rate * self.burst, the clock counting units of 1/rate
Window == Burst

RECURSIVE PopStale(_, _)
\* while self._timestamps and now - self._timestamps[0] > window: popleft()
PopStale(ts, t) ==
    IF ts # <<>> /\ t - Head(ts) > Window THEN PopStale(Tail(ts), t) ELSE ts

\* a limiter that blocks only once more than burst timestamps are held
SleepTimeAboveBurst(ts, t) ==
    IF Len(ts) > Burst /\ Head(ts) + Window - t > 0
    THEN Head(ts) + Window - t
    ELSE 0

\* the time wait() sleeps, 0 if it does not sleep
SleepTime(ts, t) ==
    IF Len(ts) >= Burst /\ Head(ts) + Window - t > 0
    THEN Head(ts) + Window - t
    ELSE 0

WaitRec(start, slept, stamp) ==
    [start |-> start, slept |-> slept, stamp |-> stamp]

\* wait() by a single caller; lag is the time that passes inside the call
\* on top of the sleep, so the second time.monotonic() may read later
wait ==
    LET ts == PopStale(timestamps, clock)
        sleep_time == SleepTime(ts, clock)
    IN  \E lag \in 0..1 :
          /\ Len(waits) < MaxCalls
          /\ clock + sleep_time + lag <= MaxClock
          /\ clock' = clock + sleep_time + lag
          /\ timestamps' = Append(ts, clock')
          /\ waits' = Append(waits, WaitRec(clock, sleep_time, clock'))
          /\ UNCHANGED <<pc, tnow, tuntil, lost, mode>>

\* time.monotonic() advances between calls
ClockTick ==
    /\ clock < MaxClock
    /\ clock' = clock + 1
    /\ UNCHANGED <<timestamps, waits, pc, tnow, tuntil, lost, mode>>

LimStart ==
    /\ clock = 0
    /\ timestamps = <<>>
    /\ waits = <<>>
    /\ pc = [t \in Callers |-> "idle"]
    /\ tnow = [t \in Callers |-> 0]
    /\ tuntil = [t \in Callers |-> 0]
    /\ lost = FALSE
    /\ mode = "threads"

---------------------------------------------------------------------------
(* RateLimiter, concurrent callers.  Threads interleave between the      *)
(* statements of wait(); asyncio tasks running async_wait() interleave   *)
(* only at "await asyncio.sleep(sleep_time)".                            *)

\* calls begun so far: the returned ones and those in progress
Begun == Len(waits) + Cardinality({t \in Callers : pc[t] # "idle"})

\* now = time.monotonic()
w_begin(t) ==
    /\ mode = "threads"
    /\ pc[t] = "idle"
    /\ Begun < MaxConcCalls
    /\ tnow' = [tnow EXCEPT ![t] = clock]
    /\ pc' = [pc EXCEPT ![t] = "loop"]
    /\ UNCHANGED <<clock, timestamps, waits, tuntil, lost, mode>>

\* while self._timestamps and now - self._timestamps[0] > window:
w_test(t) ==
    /\ pc[t] = "loop"
    /\ pc' = [pc EXCEPT ![t] =
                 IF timestamps # <<>> /\ tnow[t] - Head(timestamps) > Window
                 THEN "pop" ELSE "check"]
    /\ UNCHANGED <<clock, timestamps, waits, tnow, tuntil, lost, mode>>

\* self._timestamps.popleft(); IndexError on an empty deque ends the call
w_pop(t) ==
    /\ pc[t] = "pop"
    /\ IF timestamps = <<>>
       THEN /\ pc' = [pc EXCEPT ![t] = "IndexError"]
            /\ UNCHANGED <<timestamps, lost>>
       ELSE /\ timestamps' = Tail(timestamps)
            /\ lost' = (lost \/ ~(tnow[t] - Head(timestamps) > Window))
            /\ pc' = [pc EXCEPT ![t] = "loop"]
    /\ UNCHANGED <<clock, waits, tnow, tuntil, mode>>

\* if len(self._timestamps) >= self.burst:
w_check(t) ==
    /\ pc[t] = "check"
    /\ pc' = [pc EXCEPT ![t] =
                 IF Len(timestamps) >= Burst THEN "head" ELSE "append"]
    /\ tuntil' = [tuntil EXCEPT ![t] = tnow[t]]
    /\ UNCHANGED <<clock, timestamps, waits, tnow, lost, mode>>

\* sleep_until = self._timestamps[0] + window; sleep_time = sleep_until - now
w_head(t) ==
    /\ pc[t] = "head"
    /\ IF timestamps = <<>>
       THEN /\ pc' = [pc EXCEPT ![t] = "IndexError"]
            /\ UNCHANGED tuntil
       ELSE /\ tuntil' = [tuntil EXCEPT ![t] = Head(timestamps) + Window]
            /\ pc' = [pc EXCEPT ![t] =
                         IF Head(timestamps) + Window - tnow[t] > 0
                         THEN "sleep" ELSE "append"]
    /\ UNCHANGED <<clock, timestamps, waits, tnow, lost, mode>>

\* time.sleep(sleep_time) or await asyncio.sleep(sleep_time) returns
w_sleep(t) ==
    /\ pc[t] = "sleep"
    /\ clock >= tuntil[t]
    /\ pc' = [pc EXCEPT ![t] = "append"]
    /\ UNCHANGED <<clock, timestamps, waits, tnow, tuntil, lost, mode>>

\* the time a caller at "append" has slept
Slept(t) == IF tuntil[t] > tnow[t] THEN tuntil[t] - tnow[t] ELSE 0

\* self._timestamps.append(time.monotonic())
w_append(t) ==
    /\ mode = "threads"
    /\ pc[t] = "append"
    /\ timestamps' = Append(timestamps, clock)
    /\ waits' = Append(waits, WaitRec(tnow[t], Slept(t), clock))
    /\ pc' = [pc EXCEPT ![t] = "idle"]
    /\ UNCHANGED <<clock, tnow, tuntil, lost, mode>>

\* async_wait() up to its await: no other task runs in between
a_begin(t) ==
    LET ts == PopStale(timestamps, clock)
        sleep_time == SleepTime(ts, clock)
    IN  /\ mode = "tasks"
        /\ pc[t] = "idle"
        /\ Begun < MaxConcCalls
        /\ tnow' = [tnow EXCEPT ![t] = clock]
        /\ tuntil' = [tuntil EXCEPT ![t] = clock + sleep_time]
        /\ IF sleep_time > 0
           THEN /\ timestamps' = ts
                /\ pc' = [pc EXCEPT ![t] = "sleep"]
                /\ UNCHANGED waits
           ELSE /\ timestamps' = Append(ts, clock)
                /\ waits' = Append(waits, WaitRec(clock, 0, clock))
                /\ UNCHANGED pc
        /\ UNCHANGED <<clock, lost, mode>>

\* async_wait() after its await: the append
a_resume(t) ==
    /\ mode = "tasks"
    /\ pc[t] = "append"
    /\ timestamps' = Append(timestamps, clock)
    /\ waits' = Append(waits, WaitRec(tnow[t], Slept(t), clock))
    /\ pc' = [pc EXCEPT ![t] = "idle"]
    /\ UNCHANGED <<clock, tnow, tuntil, lost, mode>>

ConcStart(m) ==
    /\ clock = 0
    /\ timestamps = <<>>
    /\ waits = <<>>
    /\ pc = [t \in Callers |-> "idle"]
    /\ tnow = [t \in Callers |-> 0]
    /\ tuntil = [t \in Callers |-> 0]
    /\ lost = FALSE
    /\ mode = m

---------------------------------------------------------------------------
(* The checks curl_fetch applies to a downloaded page *)

MinBodyChars == 500     \* len(result.stdout) > 500
MarkerScan == 2000      \* the markers are looked for in stdout[:2000]
MarkerChars == 13       \* len("Just a moment")

\* number of characters a token stands for
TokLen(tok) ==
    IF tok = "pad" THEN MinBodyChars
    ELSE IF tok = "cf" THEN MarkerChars
    ELSE 1

RECURSIVE CharLen(_)
CharLen(body) ==
    IF body = <<>> THEN 0 ELSE TokLen(Head(body)) + CharLen(Tail(body))

\* any(m in stdout[:2000] for m in cloudflare_markers)
HasMarker(body) ==
    \E i \in DOMAIN body :
        /\ body[i] = "cf"
        /\ CharLen(SubSeq(body, 1, i)) <= MarkerScan

\* curl_fetch returns the page only if this holds, and retries otherwise
CurlAccepts(body) == CharLen(body) > MinBodyChars /\ ~HasMarker(body)

---------------------------------------------------------------------------
(* fetch_section_text.py: fetch_and_extract and its curl_fetch loop *)

curl_attempts == 3      \* for attempt in range(3)

\* what one subprocess.run of curl can do: time out (TimeoutExpired), or
\* end with a return code and the page on stdout
CurlOutcomes ==
    {[kind |-> "TimeoutExpired", returncode |-> 0, stdout |-> <<>>]} \cup
    {[kind |-> "completed", returncode |-> rc, stdout |-> b] :
        rc \in {0, 28}, b \in Bodies}

\* the test fetch_and_extract applies to a cached page before using it
CachedPageUsable(u) ==
    /\ sectionFile[u] # NoFile
    /\ LET html == ReadText(sectionFile[u])
       IN  /\ html # <<>>
           /\ CharLen(html) > MinBodyChars
           /\ ~HasMarker(html)

FaeIdle ==
    [pc |-> "idle", url |-> "u1", attempt |-> 0, sleeps |-> <<>>,
     html |-> None, requests |-> 0]

\* fetch_and_extract(url) up to the call of curl_fetch
fae_begin(u) ==
    /\ fae.pc # "curl"
    /\ fae' = IF CachedPageUsable(u)
              THEN [FaeIdle EXCEPT !.pc = "done", !.url = u,
                                   !.html = ReadText(sectionFile[u])]
              ELSE [FaeIdle EXCEPT !.pc = "curl", !.url = u]
    /\ UNCHANGED sectionFile

\* one iteration of curl_fetch's loop, and the rest of fetch_and_extract
\* once curl_fetch has returned
curl_attempt ==
    /\ fae.pc = "curl"
    /\ \E out \in CurlOutcomes :
         LET f1 == [fae EXCEPT
                      !.requests = @ + 1,
                      !.sleeps = IF fae.attempt > 0
                                 THEN Append(@, 2 * fae.attempt) ELSE @]
             accepted == /\ out.kind = "completed"
                         /\ out.returncode = 0
                         /\ CurlAccepts(out.stdout)
         IN  IF accepted
             THEN /\ sectionFile' = [sectionFile EXCEPT
                                       ![fae.url] = WriteText(out.stdout)]
                  /\ fae' = [f1 EXCEPT !.pc = "done", !.html = out.stdout]
             ELSE /\ UNCHANGED sectionFile
                  /\ fae' = IF fae.attempt + 1 < curl_attempts
                            THEN [f1 EXCEPT !.attempt = @ + 1]
                            ELSE [f1 EXCEPT !.pc = "done", !.html = None]

SecStart ==
    /\ sectionFile = [u \in Urls |-> NoFile]
    /\ fae = FaeIdle

\* the section cache never holds a page curl_fetch would reject
SectionCacheClean ==
    \A u \in Urls :
        sectionFile[u] # NoFile => CurlAccepts(sectionFile[u])

\* a rejected page is retried: curl_fetch gives up only after 3 requests
RejectedPageRetried ==
    (fae.pc = "done" /\ fae.html = None) => fae.requests = curl_attempts

---------------------------------------------------------------------------
(* Claims about HttpCache, checked under SpecCache *)

Files == <<textFile, binFile, metaFile>>

\* the text entry of u exists and its metadata is at most ttl old
FreshTextEntry(u) ==
    /\ metaFile[u].exists
    /\ textFile[u] # NoFile
    /\ now - metaFile[u].timestamp <= Ttl

\* C1: when the text entry of a url exists (body and metadata file) with
\* age <= ttl, fetch(url) returns the body read from the body file, calls
\* neither rate_limiter.wait() nor httpx.get, and changes no cache file.
C1_FreshEntryServedWithoutNetwork ==
    [][\A u \in Urls :
         (call'.op = "fetch" /\ call'.url = u /\ FreshTextEntry(u)) =>
            /\ call'.ret = ReadText(textFile[u])
            /\ call'.exc = "none"
            /\ call'.events = <<>>
            /\ Files' = Files]_vars

\* C1 witness: a fetch has just been served from an entry of age ttl
C1_Witness ==
    /\ call.op = "fetch"
    /\ call.events = <<>>
    /\ call.ret # None
    /\ now - metaFile[call.url].timestamp = Ttl

\* C2: get_cached and fetch serve a stored text body without a network call
\* only if that body was written to the cache at most ttl earlier.
C2_ServedBodyWithinTtl ==
    \A u \in Urls :
        ( /\ call.op \in {"get_cached", "fetch"}
          /\ call.url = u
          /\ call.events = <<>>
          /\ call.ret # None ) => now - textAt[u] <= Ttl

\* C3: put(url, body) followed by get_cached(url) with no other write to the
\* url in between returns exactly body while the elapsed time is within ttl,
\* returns nothing once it exceeds ttl, and then fetch(url) sends a request.
C3_PutGetRoundTrip ==
    [][\A u \in Urls :
         (call'.url = u /\ lastPut[u] # None) =>
            /\ (call'.op = "get_cached" /\ now - textAt[u] <= Ttl)
                  => call'.ret = lastPut[u]
            /\ (call'.op = "get_cached" /\ now - textAt[u] > Ttl)
                  => call'.ret = None
            /\ (call'.op = "fetch" /\ now - textAt[u] > Ttl)
                  => call'.events = <<"wait", "request">>]_vars

\* C4: fetch and fetch_bytes write to the cache only as the write-through of
\* a request that returned 2xx, and always do so before returning it; when
\* the request raises or returns non-2xx the exception propagates and the
\* body and metadata files are left as they were.
C4_WriteThroughOnlyOn2xx ==
    [][\A u \in Urls :
         (call'.op \in {"fetch", "fetch_bytes"} /\ call'.url = u) =>
            LET requested == call'.events # <<>>
                ok == requested /\ IsSuccess(call'.status)
            IN  /\ Files' # Files => ok
                /\ ok =>
                    /\ call'.exc = "none"
                    /\ metaFile'[u] = [exists |-> TRUE, timestamp |-> now,
                                       status_code |-> call'.status]
                    /\ call'.op = "fetch" =>
                          textFile'[u] = WriteText(call'.ret)
                    /\ call'.op = "fetch_bytes" => binFile'[u] = call'.ret
                /\ (requested /\ ~ok) =>
                    /\ call'.exc # "none"
                    /\ call'.ret = None
                    /\ Files' = Files]_vars

\* C4 witness: a request has just failed while an entry was in the cache
C4_Witness ==
    /\ call.op \in {"fetch", "fetch_bytes"}
    /\ call.exc = "HTTPStatusError"
    /\ call.status = 404
    /\ metaFile[call.url].exists
    /\ textFile[call.url] # NoFile
    /\ binFile[call.url] # NoFile

\* C5: a response whose body is too short or carries a challenge marker is
\* a failed fetch: HttpCache.fetch raises and does not write it to the cache.
C5_ChallengeNeverCached ==
    \A u \in Urls :
        ( /\ call.op = "fetch"
          /\ call.url = u
          /\ call.events # <<>>
          /\ call.exc = "none" ) =>
            /\ CurlAccepts(call.ret)
            /\ CurlAccepts(ReadText(textFile[u]))

---------------------------------------------------------------------------
(* Claims about RateLimiter *)

\* the calls admitted in the window [t, t + Window)
AdmittedIn(t) ==
    {i \in DOMAIN waits : t <= waits[i].stamp /\ waits[i].stamp < t + Window}

\* C7: for one caller, the number of wait() calls admitted within any
\* window of length burst / requests_per_second never exceeds burst.
C7_AtMostBurstPerWindow ==
    \A t \in 0..MaxClock : Cardinality(AdmittedIn(t)) <= Burst

\* C8: on a fresh RateLimiter, when burst + 1 wait() calls are issued within
\* a span shorter than burst / rate, the first burst calls return without
\* sleeping and the last one sleeps for a strictly positive time.
C8_BurstPlusOneBlocks ==
    ( /\ Len(waits) >= Burst + 1
      /\ waits[Burst + 1].start - waits[1].start < Window ) =>
        /\ \A i \in 1..Burst : waits[i].slept = 0
        /\ waits[Burst + 1].slept > 0

\* C10: with several callers inside wait() (or async_wait()) at once, in
\* every interleaving at most burst calls are admitted per window, and
\* every admitted call appends one timestamp of which none is lost.
C10_ConcurrentWaitSafe ==
    /\ \A t \in 0..MaxClock : Cardinality(AdmittedIn(t)) <= Burst
    /\ ~lost
    /\ \A t \in Callers : pc[t] # "IndexError"

\* C8 witness: burst + 1 calls were issued within less than a window
C8_Witness ==
    /\ Len(waits) >= Burst + 1
    /\ waits[Burst + 1].start - waits[1].start < Window
    /\ waits[Burst + 1].slept > 0

---------------------------------------------------------------------------
(* Claims about the requests and the retry loops, checked under SpecRetry *)

\* in a sequence of events every request directly follows a wait
WaitBeforeRequest(ev) ==
    \A i \in DOMAIN ev : ev[i] = "request" => (i > 1 /\ ev[i - 1] = "wait")

Count(ev, x) == Cardinality({i \in DOMAIN ev : ev[i] = x})

\* C6: every HTTP request of fetch and fetch_bytes is preceded, within the
\* same call, by a rate_limiter.wait() that has returned; every attempt of
\* _fetch_page and _fetch_with_retry that sends a request waits again first.
C6_WaitBeforeEveryRequest ==
    /\ WaitBeforeRequest(call.events)
    /\ WaitBeforeRequest(retry.events)
    /\ Count(retry.events, "wait") = Count(retry.events, "request")

\* C6 witness: a retry loop has sent its third request
C6_Witness ==
    /\ Count(retry.events, "request") = max_retries
    /\ call.op = "fetch"
    /\ call.events # <<>>

\* the delays the claim states: base, then 2 * base
ClaimedSleeps(kind) ==
    IF kind = "_fetch_page" THEN <<3, 6>> ELSE <<5, 10>>

\* C9: at most max_retries (3) attempts per url; the loop returns at the
\* first attempt that succeeds; it sleeps base * 2^k after the k-th failed
\* attempt (k = 0, 1) and not after the last; when every attempt fails the
\* last attempt's exception is raised and no value is returned.
C9_BoundedRetryWithBackoff ==
    LET n == Len(retry.outs)
        failed == {i \in 1..n : retry.outs[i].exc # "none"}
        m == IF Cardinality(failed) < 2 THEN Cardinality(failed) ELSE 2
    IN  /\ n <= 3
        /\ \A i \in 1..n : retry.outs[i].attempt = i - 1
        /\ \A i \in 1..(n - 1) : i \in failed
        /\ retry.sleeps = SubSeq(ClaimedSleeps(retry.kind), 1, m)
        /\ retry.pc = "try" => n = Cardinality(failed) /\ n < 3
        /\ retry.pc = "returned" =>
              /\ n >= 1 /\ n \notin failed
              /\ retry.result # None
              /\ retry.raised = NoError
        /\ retry.pc = "raised" =>
              /\ n = 3 /\ failed = 1..3
              /\ retry.raised = retry.outs[3]
              /\ retry.result = None

\* C9 witness: all three attempts failed, the first and the last differently
C9_Witness ==
    /\ retry.pc = "raised"
    /\ Len(retry.outs) = 3
    /\ retry.outs[1].exc = "ConnectError"
    /\ retry.outs[3].exc = "HTTPStatusError"
    /\ Len(retry.sleeps) = 2

---------------------------------------------------------------------------
(* HttpCache shared by workers.  put and get_cached take no lock, so the  *)
(* statements of different workers interleave; write_text opens the file  *)
(* (truncating it) and writes the data from offset 0 when it is flushed.  *)

Writers == {"w1", "w2"}

\* the bodies the workers store: none of them is empty
RaceBodies == {<<"pad">>, <<"pad", "lf">>}

\* a file that has been opened for writing and holds nothing yet
Truncated == <<>>

\* the metadata file: absent, truncated, or holding one JSON object
MetaAbsent == [state |-> "absent", timestamp |-> 0, status_code |-> 0]
MetaTruncated == [state |-> "truncated", timestamp |-> 0, status_code |-> 0]

MetaJson(timestamp, status_code) ==
    [state |-> "json", timestamp |-> timestamp, status_code |-> status_code]

\* data written at offset 0 of a file holding old
Overwrite(old, data) ==
    IF old = NoFile \/ Len(old) <= Len(data) THEN data
    ELSE data \o SubSeq(old, Len(data) + 1, Len(old))

RaceIdle ==
    [body |-> NoFile, bodyBy |-> 0, meta |-> MetaAbsent, metaBy |-> 0,
     puts |-> <<>>,
     wpc |-> [w \in Writers |-> "idle"],
     wid |-> [w \in Writers |-> 0],
     wtime |-> [w \in Writers |-> 0],
     rpc |-> "idle", rret |-> None, rexc |-> "none"]

\* put(url, body) is called by worker w
p_call(w, body) ==
    /\ race.wpc[w] = "idle"
    /\ Len(race.puts) < MaxPuts
    /\ race' = [race EXCEPT !.puts = Append(@, body),
                            !.wid[w] = Len(race.puts) + 1,
                            !.wpc[w] = "open_body"]

\* cache_path.write_text(body): the file is opened and truncated
p_open_body(w) ==
    /\ race.wpc[w] = "open_body"
    /\ race' = [race EXCEPT !.body = Truncated, !.bodyBy = 0,
                            !.wpc[w] = "write_body"]

\* cache_path.write_text(body): the data is written and the file closed
p_write_body(w) ==
    /\ race.wpc[w] = "write_body"
    /\ race' = [race EXCEPT
                  !.body = Overwrite(@, WriteText(race.puts[race.wid[w]])),
                  !.bodyBy = race.wid[w],
                  !.wpc[w] = "stamp"]

\* "timestamp": time.time()
p_stamp(w) ==
    /\ race.wpc[w] = "stamp"
    /\ race' = [race EXCEPT !.wtime[w] = now, !.wpc[w] = "open_meta"]

\* meta_path.write_text(json.dumps(meta)): the file is opened and truncated
p_open_meta(w) ==
    /\ race.wpc[w] = "open_meta"
    /\ race' = [race EXCEPT !.meta = MetaTruncated, !.metaBy = 0,
                            !.wpc[w] = "write_meta"]

\* meta_path.write_text(json.dumps(meta)): the data is written; put returns
p_write_meta(w) ==
    /\ race.wpc[w] = "write_meta"
    /\ race' = [race EXCEPT !.meta = MetaJson(race.wtime[w], 200),
                            !.metaBy = race.wid[w],
                            !.wpc[w] = "idle"]

\* get_cached(url) is called by a reader
g_call ==
    /\ race.rpc \in {"idle", "done"}
    /\ race' = [race EXCEPT !.rpc = "exists", !.rret = None,
                            !.rexc = "none"]

\* if not meta_path.exists() or not cache_path.exists(): return None
g_exists ==
    /\ race.rpc = "exists"
    /\ race' = IF race.meta.state = "absent" \/ race.body = NoFile
               THEN [race EXCEPT !.rpc = "done"]
               ELSE [race EXCEPT !.rpc = "read_meta"]

\* meta = json.loads(meta_path.read_text()); the age test
g_read_meta ==
    /\ race.rpc = "read_meta"
    /\ race' = IF race.meta.state = "truncated"
               THEN [race EXCEPT !.rpc = "done", !.rexc = "JSONDecodeError"]
               ELSE IF Expired(race.meta, now)
               THEN [race EXCEPT !.rpc = "done"]
               ELSE [race EXCEPT !.rpc = "read_body"]

\* return cache_path.read_text()
g_read_body ==
    /\ race.rpc = "read_body"
    /\ race' = [race EXCEPT !.rpc = "done", !.rret = ReadText(race.body)]

---------------------------------------------------------------------------
(* The content chapter file of one jurisdiction and the operations that   *)
(* write it: write_state (normalizer.py), update_content_json_direct      *)
(* (fetch_section_text.py), write_content_json                            *)
(* (fetch_section_text_discovery.py) and process_state                    *)
(* (fetch_final_gaps.py).                                                 *)
(*                                                                         *)
(* A section text is a sequence of tokens: "x" is one character and "run" *)
(* a run of 25 characters; no text of the model starts or ends with       *)
(* whitespace and no number carries whitespace, so str.strip() changes    *)
(* none of them.                                                          *)

Numbers == {"1", "2"}

SecTokens == {"x", "run"}

\* len(text)
RECURSIVE TextLen(_)
TextLen(text) ==
    IF text = <<>> THEN 0
    ELSE (IF Head(text) = "run" THEN 25 ELSE 1) + TextLen(Tail(text))

\* the texts a parse yields and the texts a section page yields
ParsedTexts == {<<>>, <<"run", "x">>}
FetchedTexts == {<<>>, <<"run">>, <<"run", "x">>, <<"x", "run">>}

Headings == {"", "g"}

Section(id, number, heading, text, source_url) ==
    [id |-> id, number |-> number, heading |-> heading, text |-> text,
     source_url |-> source_url]

\* the section records a parser builds for a number
ParsedSections ==
    {Section("p" \o n, n, h, t, "src") :
        n \in Numbers, h \in {"", "h"}, t \in ParsedTexts}

\* the sections list of a chapter file that does not exist
NoContent == <<Section("NoFile", "", "", <<>>, "")>>

\* sequences of at most n elements of S
SeqUpTo(S, n) == UNION {[1..k -> S] : k \in 0..n}

Range(seq) == {seq[k] : k \in 1..Len(seq)}

MergeIdle == [op |-> "none", updated |-> 0]

\* if text and len(text) > len(section.get("text", "")):
Replaces(text, stored) ==
    text # <<>> /\ TextLen(text) > TextLen(stored)

\* the body of that if: text, heading and source_url of the stored section
Merged(section, url, heading, text) ==
    IF Replaces(text, section.text)
    THEN [section EXCEPT
            !.text = text,
            !.heading = IF heading # "" /\ section.heading = ""
                        THEN heading ELSE @,
            !.source_url = url]
    ELSE section

(* update_content_json_direct *)

\* the urls of section pages, and their last path segment
SectionUrls == {"codes/t/section-1", "codes/t/section-2"}

\* url.rstrip("/").split("/")[-1]
UrlSlug(url) == IF url = "codes/t/section-1" THEN "section-1" ELSE "section-2"

\* "section-" + re.sub(r"[^a-z0-9]", "-", sec_num.lower()).strip("-")
NumSlug(number) == "section-" \o number

LookupKeys == Numbers \cup {UrlSlug(u) : u \in SectionUrls}

NoMatch == [url |-> "", heading |-> "", text |-> <<>>]

\* (url, section_number, heading, text) tuples
SectionData ==
    [url : SectionUrls, number : Numbers, heading : {"g"},
     text : FetchedTexts]

RECURSIVE BuildLookup(_, _)
\* url_lookup: tuples without text are left out, later tuples overwrite
BuildLookup(section_data, url_lookup) ==
    IF section_data = <<>> THEN url_lookup
    ELSE LET d == Head(section_data)
             v == [url |-> d.url, heading |-> d.heading, text |-> d.text]
         IN  IF d.text = <<>>
             THEN BuildLookup(Tail(section_data), url_lookup)
             ELSE BuildLookup(Tail(section_data),
                     [url_lookup EXCEPT ![UrlSlug(d.url)] = v,
                                        ![d.number] = v])

UrlLookup(section_data) ==
    BuildLookup(section_data, [k \in LookupKeys |-> NoMatch])

\* url_lookup.get(sec_num), else url_lookup.get(num_slug)
Match(url_lookup, number) ==
    IF url_lookup[number] # NoMatch THEN url_lookup[number]
    ELSE url_lookup[NumSlug(number)]

\* the sections list after update_content_json_direct
DirectMerged(sections, section_data) ==
    LET lk == UrlLookup(section_data) IN
    [i \in DOMAIN sections |->
        LET m == Match(lk, sections[i].number) IN
        IF m # NoMatch
        THEN Merged(sections[i], m.url, m.heading, m.text)
        ELSE sections[i]]

update_content_json_direct(section_data) ==
    IF store = NoContent
    THEN /\ mop' = [op |-> "update_content_json_direct", updated |-> 0]
         /\ UNCHANGED store
    ELSE /\ store' = DirectMerged(store, section_data)
         /\ mop' = [op |-> "update_content_json_direct",
                    updated |-> Cardinality({i \in DOMAIN store :
                                                store'[i] # store[i]})]

(* write_content_json *)

\* (number, heading, text, url) tuples of one chapter
ChapterSections ==
    [number : Numbers, heading : Headings, text : FetchedTexts,
     url : {"codes/t/section-1"}]

\* position of the key number in a dict kept as a list, 0 if absent
KeyIndex(dict, number) ==
    IF \E i \in DOMAIN dict : dict[i].number = number
    THEN CHOOSE i \in DOMAIN dict : dict[i].number = number
    ELSE 0

RECURSIVE ExistingSections(_, _)
\* existing_sections[sec.get("number", "")] = sec, in file order
ExistingSections(sections, dict) ==
    IF sections = <<>> THEN dict
    ELSE LET sec == Head(sections)
             i == KeyIndex(dict, sec.number)
         IN  ExistingSections(Tail(sections),
                IF i = 0 THEN Append(dict, sec)
                ELSE [dict EXCEPT ![i] = sec])

RECURSIVE MergeNew(_, _)
\* the loop "for number, heading, text, url in sections"
MergeNew(dict, sections) ==
    IF sections = <<>> THEN dict
    ELSE LET d == Head(sections)
             i == KeyIndex(dict, d.number)
         IN  MergeNew(
                IF i # 0
                THEN [dict EXCEPT
                        ![i] = Merged(dict[i], d.url, d.heading, d.text)]
                ELSE Append(dict, Section(NumSlug(d.number), d.number,
                                          d.heading, d.text, d.url)),
                Tail(sections))

\* list(existing_sections.values()) after the merge
ContentMerged(sections, incoming) ==
    MergeNew(ExistingSections(IF sections = NoContent THEN <<>> ELSE sections,
                              <<>>),
             incoming)

write_content_json(sections) ==
    /\ store' = ContentMerged(store, sections)
    /\ mop' = [op |-> "write_content_json", updated |-> Len(sections)]

(* write_state *)

\* write_state: the chapter file is written from the parsed chapter
write_state(sections) ==
    /\ store' = sections
    /\ mop' = [op |-> "write_state", updated |-> Len(sections)]

(* process_state *)

MinExtractChars == 20       \* extract_content: text if len(text) > 20
truncation_threshold == 50  \* collect_sections(.., truncation_threshold=50)

\* what fetch_text returns for a number: a text longer than 20, or None
FetchTextResults ==
    {t \in FetchedTexts : TextLen(t) > MinExtractChars} \cup {None}

\* collect_sections: the indexes of the sections to fetch
Targets(sections, rescrape) ==
    {i \in DOMAIN sections :
        \/ sections[i].text = <<>>
        \/ rescrape /\ TextLen(sections[i].text) < truncation_threshold}

\* the sections list after the write-back loop of process_state
GapsFilled(sections, rescrape, results) ==
    [i \in DOMAIN sections |->
        IF i \in Targets(sections, rescrape)
           /\ results[sections[i].number] # None
        THEN [sections[i] EXCEPT !.text = results[sections[i].number],
                                 !.source_url = "justia"]
        ELSE sections[i]]

process_state(rescrape, results) ==
    IF store = NoContent
    THEN /\ mop' = [op |-> "process_state", updated |-> 0]
         /\ UNCHANGED store
    ELSE /\ store' = GapsFilled(store, rescrape, results)
         /\ mop' = [op |-> "process_state",
                    updated |-> Cardinality(
                        {i \in Targets(store, rescrape) :
                            results[store[i].number] # None})]

MergeStart ==
    /\ store = NoContent
    /\ mop = MergeIdle

---------------------------------------------------------------------------
(* The ingest command (pipeline/cli.py) and BaseIngestor.ingest            *)
(* (pipeline/ingestion/base.py).  One action is one call the command makes *)
(* for the jurisdiction it is at, together with the except clause of the   *)
(* loop when that call raises.                                             *)

\* the keys of sources.yaml, in file order
Slugs == <<"alabama", "alaska", "arizona">>

SlugIndex(slug) == CHOOSE k \in 1..Len(Slugs) : Slugs[k] = slug

\* the keys of ingestor_map
ingestor_map ==
    {"dc_council", "justia", "law_resource_org", "internet_archive",
     "official_website", "state_provided"}

\* the source_type values a sources.yaml entry is given here
SourceTypes == {"justia", "official_website", "nosuch"}

\* the keyword arguments HttpCache.__init__ accepts
HttpCacheArgs == {"cache_dir", "ttl", "rate_limiter"}

\* the keyword arguments the constructor of each ingestor passes to HttpCache
CacheArgsOf(source_type) ==
    IF source_type = "official_website"
    THEN {"cache_dir", "ttl", "rate_limiter", "verify_ssl"}
    ELSE {"cache_dir", "ttl", "rate_limiter"}

RawPaths == {"raw1", "raw2"}

StateCodes == {"code1", "code2"}

Nothing == "none"

\* what fetch() and parse() of an ingestor can do
FetchOutcomes ==
    {[kind |-> "return", value |-> r, exc |-> Nothing] : r \in RawPaths} \cup
    {[kind |-> "raise", value |-> Nothing, exc |-> "FetchError"]}

ParseOutcomes ==
    {[kind |-> "return", value |-> c, exc |-> Nothing] : c \in StateCodes} \cup
    {[kind |-> "raise", value |-> Nothing, exc |-> "ParseError"]}

\* where write_state raises, if it does: at the first mkdir, in
\* build_manifest, while the manifest is being written, or later
WriteOutcomes == {"ok", "mkdir", "build_manifest", "manifest", "chapter"}

\* how the jurisdictions are selected: --all, --source-type or --state
Selections ==
    {[by |-> "all", value |-> Nothing]} \cup
    {[by |-> "source_type", value |-> t] : t \in SourceTypes} \cup
    {[by |-> "state", value |-> Slugs[k]] : k \in 1..Len(Slugs)}

\* one call of BaseIngestor.ingest
IngestIdle ==
    [fetches |-> 0, parses |-> 0, fetched |-> Nothing, parseArg |-> Nothing,
     parsed |-> Nothing, status |-> "none", result |-> Nothing,
     exc |-> Nothing]

JobIdle ==
    [pc |-> "start", sources |-> <<>>, states_to_process |-> <<>>, i |-> 0,
     raw_path |-> Nothing, state_code |-> Nothing, ing |-> IngestIdle,
     successes |-> <<>>, failures |-> <<>>, logged |-> <<>>,
     echoed |-> <<>>, worked |-> <<>>, index |-> "stale",
     reported |-> <<>>, exc |-> Nothing]

NoManifests == [k \in 1..Len(Slugs) |-> "none"]

OutIdle == [dir |-> FALSE, manifest |-> NoManifests, index |-> {}]

\* states_to_process, lines 100-114
Selected(sources, sel) ==
    LET keys == SubSeq(Slugs, 1, Len(sources))
        OfType(slug) == sources[SlugIndex(slug)] = sel.value
    IN  IF sel.by = "all" THEN keys
        ELSE IF sel.by = "source_type" THEN SelectSeq(keys, OfType)
        ELSE <<sel.value>>

\* lines 93-119: load the configuration and select the jurisdictions
ingest(sources, sel, data_dir_exists) ==
    /\ job.pc = "start"
    /\ out_data' = [OutIdle EXCEPT !.dir = data_dir_exists]
    /\ IF sel.by = "state" /\ SlugIndex(sel.value) > Len(sources)
       THEN job' = [job EXCEPT !.pc = "exit", !.sources = sources]
       ELSE LET todo == Selected(sources, sel)
            IN  job' = [job EXCEPT
                    !.pc = IF todo = <<>> THEN "index" ELSE "get",
                    !.sources = sources,
                    !.states_to_process = todo,
                    !.i = 1]

\* the jurisdiction the loop is at
Slug(j) == j.states_to_process[j.i]

\* the loop moves on to the next jurisdiction, or ends
LoopNext(j) ==
    [j EXCEPT !.i = @ + 1,
              !.pc = IF j.i + 1 > Len(j.states_to_process)
                     THEN "index" ELSE "get"]

\* except Exception, lines 137-140
Failed(j, e) ==
    LoopNext([j EXCEPT !.failures = Append(@, <<Slug(j), e>>),
                       !.logged = Append(@, Slug(j)),
                       !.echoed = Append(@, Slug(j))])

\* _get_ingestor, called at line 127
get_ingestor ==
    /\ job.pc = "get"
    /\ LET source_type == job.sources[SlugIndex(Slug(job))]
       IN  job' = IF source_type \notin ingestor_map
                  THEN Failed(job, "ValueError")
                  ELSE IF ~(CacheArgsOf(source_type) \subseteq HttpCacheArgs)
                  THEN Failed(job, "TypeError")
                  ELSE [job EXCEPT !.pc = "fetch"]
    /\ UNCHANGED out_data

\* an ingest() that goes on to parse when fetch has raised
FetchedIgnoringRaise(j, outcome) ==
    [j EXCEPT !.pc = "parse",
              !.raw_path = outcome.value,
              !.worked = Append(@, <<"fetch", Slug(j)>>),
              !.ing = [IngestIdle EXCEPT !.fetches = 1,
                                         !.fetched = outcome.value]]

\* ingest() after its call of fetch(), line 108
Fetched(j, outcome) ==
    LET called == [j EXCEPT !.worked = Append(@, <<"fetch", Slug(j)>>)]
    IN  IF outcome.kind = "raise"
        THEN Failed([called EXCEPT
                        !.ing = [IngestIdle EXCEPT !.fetches = 1,
                                                   !.status = "raised",
                                                   !.exc = outcome.exc]],
                    outcome.exc)
        ELSE [called EXCEPT
                 !.pc = "parse",
                 !.raw_path = outcome.value,
                 !.ing = [IngestIdle EXCEPT !.fetches = 1,
                                            !.fetched = outcome.value]]

\* ingest() after its call of parse(), lines 110-118
Parsed(j, outcome) ==
    LET called == [j EXCEPT !.worked = Append(@, <<"parse", Slug(j)>>),
                            !.ing.parses = @ + 1,
                            !.ing.parseArg = j.raw_path]
    IN  IF outcome.kind = "raise"
        THEN Failed([called EXCEPT !.ing.status = "raised",
                                   !.ing.exc = outcome.exc],
                    outcome.exc)
        ELSE [called EXCEPT !.pc = "write",
                            !.state_code = outcome.value,
                            !.ing.parsed = outcome.value,
                            !.ing.status = "returned",
                            !.ing.result = outcome.value]

\* ingestor.ingest() up to the return of fetch()
ingest_fetch(outcome) ==
    /\ job.pc = "fetch"
    /\ job' = Fetched(job, outcome)
    /\ UNCHANGED out_data

\* ingestor.ingest() from the call of parse() to its end
ingest_parse(outcome) ==
    /\ job.pc = "parse"
    /\ job' = Parsed(job, outcome)
    /\ UNCHANGED out_data

\* the data directory after write_state of the jurisdiction at index k
Written(o, k, outcome) ==
    IF outcome = "mkdir" THEN o
    ELSE IF outcome = "build_manifest" THEN [o EXCEPT !.dir = TRUE]
    ELSE IF outcome = "manifest"
    THEN [o EXCEPT !.dir = TRUE, !.manifest[k] = "cut"]
    ELSE [o EXCEPT !.dir = TRUE, !.manifest[k] = "ok"]

\* write_state, called at line 132, and lines 134-135
write(outcome) ==
    /\ job.pc = "write"
    /\ out_data' = Written(out_data, SlugIndex(Slug(job)), outcome)
    /\ LET called == [job EXCEPT !.worked = Append(@, <<"write", Slug(job)>>)]
       IN  job' = IF outcome = "ok"
                  THEN LoopNext([called EXCEPT
                                    !.successes = Append(@, Slug(job))])
                  ELSE Failed(called, "OSError")

\* _update_master_index and the closing report, lines 142-149
update_master_index ==
    /\ job.pc = "index"
    /\ IF ~out_data.dir
       THEN /\ job' = [job EXCEPT !.pc = "crashed",
                                  !.exc = "FileNotFoundError"]
            /\ UNCHANGED out_data
       ELSE IF \E k \in 1..Len(Slugs) : out_data.manifest[k] = "cut"
       THEN /\ job' = [job EXCEPT !.pc = "crashed",
                                  !.exc = "JSONDecodeError"]
            /\ UNCHANGED out_data
       ELSE /\ out_data' = [out_data EXCEPT !.index =
                          {Slugs[k] : k \in {n \in 1..Len(Slugs) :
                                                out_data.manifest[n] = "ok"}}]
            /\ job' = [job EXCEPT !.pc = "done",
                                  !.index = "rebuilt",
                                  !.reported = job.failures]

CliStart ==
    /\ job = JobIdle
    /\ out_data = OutIdle

---------------------------------------------------------------------------
(* fetch() of the ingestors of one jurisdiction: DCCouncilIngestor,        *)
(* LawResourceOrgIngestor and JustiaIngestor.  raw.content is what the raw *)
(* directory holds: NoFile while it holds nothing, else the contents of    *)
(* the extracted archive, of the downloaded XML or of index.html.          *)

RawIdle ==
    [kind |-> "none", exists |-> FALSE, content |-> NoFile,
     returned |-> Nothing]

FetchIdle ==
    [n |-> 0, ret |-> Nothing, exc |-> "none", network |-> FALSE]

\* the request has gone to the network
Requested(c) == \E k \in 1..Len(c.events) : c.events[k] = "request"

\* fetch() returns location, having made the HttpCache call c or none
FetchReturns(location, network) ==
    [n |-> fcall.n + 1, ret |-> location, exc |-> "none",
     network |-> network]

FetchRaises(exc, network) ==
    [n |-> fcall.n + 1, ret |-> Nothing, exc |-> exc, network |-> network]

\* the XML files LawResourceOrgIngestor.fetch ends up with: none when the
\* index links to none or every download fails
XmlFiles == {NoFile, <<"pad">>}

\* DCCouncilIngestor.fetch
dc_fetch ==
    /\ raw.kind \in {"none", "dc_council"}
    /\ fcall.n < MaxFetches
    /\ IF raw.exists /\ raw.content # NoFile
       THEN /\ fcall' = FetchReturns("extract_dir", FALSE)
            /\ raw' = [raw EXCEPT !.kind = "dc_council",
                                  !.returned = "extract_dir"]
            /\ UNCHANGED cacheVars
       ELSE /\ \E u \in Urls : fetch_bytes(u)
            /\ IF call'.exc # "none"
               THEN /\ fcall' = FetchRaises(call'.exc, Requested(call'))
                    /\ raw' = [raw EXCEPT !.kind = "dc_council"]
               ELSE IF call'.ret = <<>>
               THEN /\ fcall' = FetchRaises("BadZipFile", Requested(call'))
                    /\ raw' = [raw EXCEPT !.kind = "dc_council"]
               ELSE /\ fcall' = FetchReturns("extract_dir", Requested(call'))
                    /\ raw' = [kind |-> "dc_council", exists |-> TRUE,
                               content |-> call'.ret,
                               returned |-> "extract_dir"]

\* LawResourceOrgIngestor.fetch
lro_fetch ==
    /\ raw.kind \in {"none", "law_resource_org"}
    /\ fcall.n < MaxFetches
    /\ IF raw.exists /\ raw.content # NoFile
       THEN /\ fcall' = FetchReturns("extract_dir", FALSE)
            /\ raw' = [raw EXCEPT !.kind = "law_resource_org",
                                  !.returned = "extract_dir"]
            /\ UNCHANGED cacheVars
       ELSE /\ \E u \in Urls : fetch(u)
            /\ IF call'.exc # "none"
               THEN /\ fcall' = FetchRaises(call'.exc, Requested(call'))
                    /\ raw' = [raw EXCEPT !.kind = "law_resource_org",
                                          !.exists = TRUE]
               ELSE \E xml \in XmlFiles :
                    /\ fcall' = FetchReturns("extract_dir",
                                    Requested(call') \/ xml # NoFile)
                    /\ raw' = [kind |-> "law_resource_org", exists |-> TRUE,
                               content |-> xml, returned |-> "extract_dir"]

\* JustiaIngestor.fetch for a state index page without title links; a raise
\* of http_cache.fetch stands for every attempt of _fetch_with_retry failing
justia_fetch ==
    /\ raw.kind \in {"none", "justia"}
    /\ fcall.n < MaxFetches
    /\ \E u \in Urls : fetch(u)
    /\ IF call'.exc # "none"
       THEN /\ fcall' = FetchRaises(call'.exc, Requested(call'))
            /\ raw' = [raw EXCEPT !.kind = "justia", !.exists = TRUE]
       ELSE /\ fcall' = FetchReturns("raw_dir", Requested(call'))
            /\ raw' = [kind |-> "justia", exists |-> TRUE,
                       content |-> WriteText(call'.ret),
                       returned |-> "raw_dir"]

RawStart ==
    /\ raw = RawIdle
    /\ fcall = FetchIdle

---------------------------------------------------------------------------
(* parse() of the ingestors: OfficialWebsiteIngestor._generic_parse and    *)
(* _parse_justia_impl, JustiaIngestor.parse and DCCouncilIngestor.parse.   *)
(* The raw directory is a sequence of title directories; each holds an     *)
(* index file and chapter files (section files for DC).  A file is bad     *)
(* when reading or parsing it raises.  What a file says about a section is *)
(* the text its number is taken from, a string of spaces "sp" and other    *)
(* characters "1".  The text of a section is left out.                     *)

NumTexts == {<<>>, <<"sp">>, <<"1">>, <<"sp", "1">>}

File(exists, bad, nums) == [exists |-> exists, bad |-> bad, nums |-> nums]

NoIndex == File(FALSE, FALSE, <<>>)

BadFile == File(TRUE, TRUE, <<>>)

\* a file that is read and parsed and holds no section
EmptyFile == File(TRUE, FALSE, <<>>)

\* chapter files: bad, without a section, or with one section
RawFiles ==
    {BadFile, EmptyFile} \cup {File(TRUE, FALSE, <<t>>) : t \in NumTexts}

IndexFiles == {NoIndex, BadFile, File(TRUE, FALSE, << <<"1">> >>)}

Dirs ==
    {[index |-> x, files |-> f] :
        x \in IndexFiles, f \in SeqUpTo(RawFiles, MaxFiles)}

Trees == SeqUpTo(Dirs, MaxDirs)

RECURSIVE LStrip(_)
LStrip(t) ==
    IF t # <<>> /\ Head(t) = "sp" THEN LStrip(Tail(t)) ELSE t

RECURSIVE RStrip(_)
RStrip(t) ==
    IF t # <<>> /\ t[Len(t)] = "sp"
    THEN RStrip(SubSeq(t, 1, Len(t) - 1)) ELSE t

\* str.strip()
Strip(t) == RStrip(LStrip(t))

RECURSIVE Collapse(_)
\* re.sub(r"\s+", " ", number)
Collapse(t) ==
    IF t = <<>> THEN <<>>
    ELSE IF Head(t) = "sp"
    THEN <<"sp">> \o Collapse(LStrip(t))
    ELSE <<Head(t)>> \o Collapse(Tail(t))

clean_section_number(number) == Strip(Collapse(number))

RECURSIVE Run(_)
Run(t) ==
    IF t = <<>> \/ Head(t) = "sp" THEN <<>>
    ELSE <<Head(t)>> \o Run(Tail(t))

\* group 1 of the section patterns, after the section sign and \s*: a run
\* of characters that are not spaces; <<>> when the pattern does not match
MatchedNumber(text) == Run(LStrip(text))

RECURSIVE SoupSections(_, _)
\* extract_sections_from_soup
SoupSections(nums, seen) ==
    IF nums = <<>> THEN <<>>
    ELSE LET match == MatchedNumber(Head(nums))
             num == clean_section_number(match)
         IN  IF match = <<>> \/ num = <<>> \/ num \in seen
             THEN SoupSections(Tail(nums), seen)
             ELSE <<[number |-> num]>>
                     \o SoupSections(Tail(nums), seen \cup {num})

RECURSIVE PageSections(_)
\* JustiaIngestor._extract_sections_from_page, for sections with text
PageSections(nums) ==
    IF nums = <<>> THEN <<>>
    ELSE LET match == MatchedNumber(Head(nums))
         IN  IF match = <<>> THEN PageSections(Tail(nums))
             ELSE <<[number |-> clean_section_number(match)]>>
                     \o PageSections(Tail(nums))

Parsers == {"generic", "justia_impl", "justia", "dc_council"}

\* the sections of one file: _extract_sections_from_file and
\* _parse_chapter_file give none for a file that raises
SectionsOf(op, file) ==
    IF file.bad THEN <<>>
    ELSE IF op = "justia" THEN PageSections(file.nums)
    ELSE SoupSections(file.nums, {})

RECURSIVE FileChapters(_, _, _)
\* one Chapter for each chapter file that has sections, from file k on
FileChapters(op, files, k) ==
    IF k > Len(files) THEN <<>>
    ELSE LET sections == SectionsOf(op, files[k])
         IN  (IF sections = <<>> THEN <<>>
              ELSE <<[number |-> k, sections |-> sections]>>)
             \o FileChapters(op, files, k + 1)

\* the chapters of a title directory; index.html is used when no chapter
\* file gave a chapter
HtmlChapters(op, dir) ==
    LET chapters == FileChapters(op, dir.files, 1)
        sections == IF dir.index.exists THEN SectionsOf(op, dir.index)
                    ELSE <<>>
    IN  IF chapters # <<>> THEN chapters
        ELSE IF sections # <<>>
        THEN <<[number |-> 0, sections |-> sections]>>
        ELSE <<>>

\* DCCouncilIngestor._parse_section_file
DcSection(file) ==
    IF file.bad \/ file.nums = <<>> THEN <<>>
    ELSE IF file.nums[1] = <<>> THEN <<>>
    ELSE <<[number |-> Strip(file.nums[1])]>>

RECURSIVE DcSections(_)
DcSections(files) ==
    IF files = <<>> THEN <<>>
    ELSE DcSection(Head(files)) \o DcSections(Tail(files))

\* DCCouncilIngestor._parse_title: numbers without "-" all go to chapter "1"
DcChapters(dir) ==
    LET sections == DcSections(dir.files)
    IN  IF sections = <<>> THEN <<>>
        ELSE <<[number |-> 1, sections |-> sections]>>

ChaptersOf(op, dir) ==
    IF op = "dc_council" THEN DcChapters(dir) ELSE HtmlChapters(op, dir)

RECURSIVE TitlesFrom(_, _, _)
\* a Title for each title directory that has chapters, from directory d on
TitlesFrom(op, tree, d) ==
    IF d > Len(tree) THEN <<>>
    ELSE LET chapters == ChaptersOf(op, tree[d])
         IN  (IF chapters = <<>> THEN <<>>
              ELSE <<[number |-> d, chapters |-> chapters]>>)
             \o TitlesFrom(op, tree, d + 1)

\* _parse_justia_impl reads and parses the files outside any try block
Raises(op, tree) ==
    /\ op = "justia_impl"
    /\ \E d \in 1..Len(tree) :
          \/ \E k \in 1..Len(tree[d].files) : tree[d].files[k].bad
          \/ /\ FileChapters(op, tree[d].files, 1) = <<>>
             /\ tree[d].index.exists
             /\ tree[d].index.bad

NoParse == [op |-> "none", tree |-> <<>>, raised |-> FALSE, titles |-> <<>>]

ParseResult(op, tree) ==
    [op |-> op, tree |-> tree, raised |-> Raises(op, tree),
     titles |-> IF Raises(op, tree) THEN <<>> ELSE TitlesFrom(op, tree, 1)]

\* OfficialWebsiteIngestor._generic_parse
generic_parse(tree) ==
    /\ presult.op = "none"
    /\ presult' = ParseResult("generic", tree)

\* _parse_justia_impl of official_website.py
parse_justia_impl(tree) ==
    /\ presult.op = "none"
    /\ presult' = ParseResult("justia_impl", tree)

\* JustiaIngestor.parse
justia_parse(tree) ==
    /\ presult.op = "none"
    /\ presult' = ParseResult("justia", tree)

\* DCCouncilIngestor.parse
dc_parse(tree) ==
    /\ presult.op = "none"
    /\ presult' = ParseResult("dc_council", tree)

---------------------------------------------------------------------------
(* The data directory of one jurisdiction: manifest.json, toc.json and    *)
(* the chapter files under content/ (normalizer.py, and the two text      *)
(* passes that write into the same directory)                             *)

TitleIds == {"title-1", "title-2"}

ChapterIds == {"chapter-1", "chapter-2"}

\* the Section numbers of one parsed Chapter, in document order
SectionLists == {<<"1">>, <<"2">>, <<"1", "2">>}

ParsedChapters == [id : ChapterIds, sections : SectionLists]

\* the Chapters of one parsed Title: some, each with an id of its own
ChapterLists ==
    {chapters \in SeqUpTo(ParsedChapters, MaxChapters) :
        /\ chapters # <<>>
        /\ \A i, j \in DOMAIN chapters :
              chapters[i].id = chapters[j].id => i = j}

\* the Titles _parse_xml_file returns, one after the other
ParsedTitles == [id : TitleIds, chapters : ChapterLists]

RECURSIVE MergeInto(_, _)
MergeInto(merged, titles) ==
    IF titles = <<>> THEN merged
    ELSE LET title == Head(titles)
             at == {i \in DOMAIN merged : merged[i].id = title.id}
         IN  IF at # {}
             THEN MergeInto([merged EXCEPT
                                ![CHOOSE i \in at : TRUE].chapters =
                                    @ \o title.chapters],
                            Tail(titles))
             ELSE MergeInto(Append(merged, title), Tail(titles))

\* LawResourceOrgIngestor._merge_titles
merge_titles(titles) == MergeInto(<<>>, titles)

\* the trees parse() hands to write_state
StateTrees ==
    {merge_titles(titles) : titles \in SeqUpTo(ParsedTitles, MaxTitles)}

RECURSIVE SumOf(_)
SumOf(counts) ==
    IF counts = <<>> THEN 0 ELSE Head(counts) + SumOf(Tail(counts))

ChapterCount(title) == Len(title.chapters)

SectionCount(title) ==
    SumOf([j \in DOMAIN title.chapters |-> Len(title.chapters[j].sections)])

\* build_manifest: the "stats" entry
build_manifest(state_code) ==
    [titles |-> Len(state_code),
     chapters |-> SumOf([i \in DOMAIN state_code |->
                            ChapterCount(state_code[i])]),
     sections |-> SumOf([i \in DOMAIN state_code |->
                            SectionCount(state_code[i])])]

\* build_toc: title nodes, chapter nodes, section children
build_toc(state_code) ==
    [i \in DOMAIN state_code |->
        [id |-> state_code[i].id,
         children |->
            [j \in DOMAIN state_code[i].chapters |->
                [id |-> state_code[i].chapters[j].id,
                 section_count |->
                     Len(state_code[i].chapters[j].sections),
                 children |-> state_code[i].chapters[j].sections]]]]

\* f"{title.id}/{chapter.id}.json"
ChapterPath(title_id, chapter_id) == <<title_id, chapter_id>>

RECURSIVE build_content_chapters(_)
build_content_chapters(state_code) ==
    IF state_code = <<>> THEN <<>>
    ELSE LET title == Head(state_code)
         IN  [j \in DOMAIN title.chapters |->
                 [path |-> ChapterPath(title.id, title.chapters[j].id),
                  sections |-> title.chapters[j].sections]]
             \o build_content_chapters(Tail(state_code))

\* fetch_section_text_discovery.slugify of the url parts, with its prefix
TitleSlugs == {"1"}

ChapterSlugs == {"1", ""}

TitleDir(title_slug) == IF title_slug = "1" THEN "title-1" ELSE "title-2"

ChapterName(chapter_slug) ==
    IF chapter_slug = "" THEN "chapter-main"
    ELSE IF chapter_slug = "1" THEN "chapter-1" ELSE "chapter-2"

Keys == TitleSlugs \X ChapterSlugs

KeyPath(key) == <<TitleDir(key[1]), ChapterName(key[2])>>

\* every file content/<dir>/<name>.json the program can write
Paths == (TitleIds \X ChapterIds) \cup {KeyPath(key) : key \in Keys}

\* sections_by_chapter: the numbers fetched with text, of some keys
KeyedSections ==
    UNION {[keys -> SeqUpTo(Numbers, MaxIncoming + 1) \ {<<>>}] :
              keys \in (SUBSET Keys) \ {{}}}

\* the chapter files after the loop of write_state: a later tuple with the
\* path of an earlier one is written over it
RECURSIVE WriteChapters(_, _)
WriteChapters(files, chapters) ==
    IF chapters = <<>> THEN files
    ELSE WriteChapters([files EXCEPT ![Head(chapters).path] =
                                         Head(chapters).sections],
                       Tail(chapters))

\* the keys of a dict filled from a list, in insertion order
RECURSIVE KeysInOrder(_, _)
KeysInOrder(keys, numbers) ==
    IF numbers = <<>> THEN keys
    ELSE KeysInOrder(IF Head(numbers) \in Range(keys) THEN keys
                     ELSE Append(keys, Head(numbers)),
                     Tail(numbers))

\* write_content_json on one file: existing_sections, then the new numbers
FileAfter(file, numbers) ==
    KeysInOrder(KeysInOrder(<<>>, IF file = NoFile THEN <<>> ELSE file),
                numbers)

DiskIdle ==
    [indexed |-> FALSE,
     manifest |-> build_manifest(<<>>),
     toc |-> build_toc(<<>>),
     files |-> [path \in Paths |-> NoFile],
     tree |-> <<>>,
     op |-> "none",
     runs |-> 0]

\* normalizer.write_state(state_code, data_dir)
normalizer_write_state(state_code) ==
    disk' = [indexed |-> TRUE,
             manifest |-> build_manifest(state_code),
             toc |-> build_toc(state_code),
             files |-> WriteChapters(disk.files,
                                     build_content_chapters(state_code)),
             tree |-> state_code,
             op |-> "write_state",
             runs |-> disk.runs + 1]

\* fetch_section_text_discovery.write_content_json(state, sections_by_chapter)
discovery_write_content_json(sections_by_chapter) ==
    disk' = [disk EXCEPT
                !.files = [path \in Paths |->
                    LET keys == {key \in DOMAIN sections_by_chapter :
                                    KeyPath(key) = path}
                    IN  IF keys = {} THEN disk.files[path]
                        ELSE FileAfter(disk.files[path],
                                 sections_by_chapter[CHOOSE key \in keys :
                                                         TRUE])],
                !.op = "write_content_json",
                !.runs = @ + 1]

\* fetch_section_text.update_content_json_direct(state, section_data): the
\* sections of every file keep their number and their place
direct_update_content_json ==
    disk' = [disk EXCEPT !.op = "update_content_json_direct",
                         !.runs = @ + 1]

---------------------------------------------------------------------------
(* The Sections of one HTML document (official_website.                   *)
(* extract_sections_from_soup) and the records the discovery pass builds  *)
(* for new numbers (fetch_section_text_discovery.write_content_json).     *)
(* A text is a string of tokens: the section sign "sign", a space "sp", a *)
(* newline "nl", the characters of a number, and sentences, each a token  *)
(* of its own.  Every text has at least 5 characters and every line at    *)
(* most 150, so that no element is skipped for its length and no heading  *)
(* is cut.                                                                *)

MaxNumberChars == 30    \* if len(num) > 30: break

SlugChars == 80         \* slug[:80]

\* [\d\-\.a-zA-Z:]
NumberChars == {"0", "1", ".", "-", ":", "A", "a"}

\* [.\-:\s] and the dashes
SeparatorChars == {".", "-", ":", "sp", "nl"}

Whitespace == {"sp", "nl"}

LongRun(n) == [k \in 1..n |-> "1"]

\* what follows the section sign up to the next space
NumberRuns ==
    {<<"1">>, <<"1", ".">>, <<"1", ".", "1">>,
     <<"1", "-", "1", "-", "1", "0", ".">>,
     LongRun(MaxNumberChars), LongRun(MaxNumberChars + 1)}

Rests ==
    {<<"Short title.", "sp", "This chapter shall be known as...">>,
     <<"Short title.", "nl", "This chapter shall be known as...">>}

Texts ==
    {<<"sign", "sp">> \o run \o <<"sp">> \o rest :
        run \in NumberRuns, rest \in Rests}
    \cup {<<"Short title.">>}

Tags == {"p", "h1"}

\* the tags the first pass looks at, and those the second pass looks at
PatternTags ==
    {"p", "div", "li", "span", "td", "h2", "h3", "h4", "h5", "dt", "dd",
     "b", "strong", "a"}

HeadingTags == {"h1", "h2", "h3", "h4", "h5"}

Elements == [tag : Tags, text : Texts]

\* soup.find_all(..): the elements of the document, in document order
Documents == SeqUpTo(Elements, MaxElements)

RECURSIVE SkipWhile(_, _)
SkipWhile(t, chars) ==
    IF t # <<>> /\ Head(t) \in chars THEN SkipWhile(Tail(t), chars) ELSE t

TakeWhile(t, chars) == SubSeq(t, 1, Len(t) - Len(SkipWhile(t, chars)))

RECURSIVE StripEnd(_)
StripEnd(t) ==
    IF t # <<>> /\ t[Len(t)] \in Whitespace
    THEN StripEnd(SubSeq(t, 1, Len(t) - 1)) ELSE t

\* str.strip()
StripWs(t) == StripEnd(SkipWhile(t, Whitespace))

NoPatternMatch == [matched |-> FALSE, group1 |-> <<>>, group2 |-> <<>>]

\* pattern.match(text) for the first pattern,
\* (?:sign+\s*)([\d\-\.a-zA-Z:]+)\s*[.\-:\s]+(.*): group 1 is the longest
\* run of number characters that a separator follows
PatternMatch(text) ==
    IF text = <<>> \/ Head(text) # "sign" THEN NoPatternMatch
    ELSE LET after == SkipWhile(SkipWhile(text, {"sign"}), Whitespace)
             run == TakeWhile(after, NumberChars)
             tail == SkipWhile(after, NumberChars)
             Following(k) == SubSeq(run, k + 1, Len(run)) \o tail
             ends == {k \in 1..Len(run) :
                         Following(k) # <<>> /\ Head(Following(k)) \in SeparatorChars}
         IN  IF ends = {} THEN NoPatternMatch
             ELSE LET k == CHOOSE e \in ends : \A o \in ends : o <= e
                  IN  [matched |-> TRUE,
                       group1 |-> SubSeq(run, 1, k),
                       group2 |-> SkipWhile(Following(k), SeparatorChars)]

\* rest.split("\n", 1)
FirstLine(rest) == TakeWhile(rest, (Range(rest) \cup {"sp"}) \ {"nl"})

AfterFirstLine(rest) ==
    IF Len(FirstLine(rest)) = Len(rest) THEN <<>>
    ELSE SubSeq(rest, Len(FirstLine(rest)) + 2, Len(rest))

RECURSIVE NormalizeWs(_)
\* normalize_whitespace: runs of spaces, spaces around a newline
NormalizeWs(t) ==
    IF t = <<>> THEN <<>>
    ELSE IF Head(t) = "sp"
    THEN LET r == SkipWhile(t, {"sp"})
         IN  IF r # <<>> /\ Head(r) = "nl" THEN NormalizeWs(r)
             ELSE <<"sp">> \o NormalizeWs(r)
    ELSE IF Head(t) = "nl"
    THEN <<"nl">> \o NormalizeWs(SkipWhile(Tail(t), {"sp"}))
    ELSE <<Head(t)>> \o NormalizeWs(Tail(t))

RECURSIVE ParagraphBreaks(_)
\* re.sub(r"\n{3,}", "\n\n", text)
ParagraphBreaks(t) ==
    IF t = <<>> THEN <<>>
    ELSE IF Len(t) >= 3 /\ t[1] = "nl" /\ t[2] = "nl" /\ t[3] = "nl"
    THEN ParagraphBreaks(Tail(t))
    ELSE <<Head(t)>> \o ParagraphBreaks(Tail(t))

\* text_cleaner.clean_text of a text without tags
clean_text(t) == StripWs(ParagraphBreaks(NormalizeWs(t)))

Lower(c) == IF c = "A" THEN "a" ELSE c

RECURSIVE CollapseDashes(_)
\* re.sub(r"-+", "-", slug)
CollapseDashes(t) ==
    IF t = <<>> THEN <<>>
    ELSE IF Head(t) = "-"
    THEN <<"-">> \o CollapseDashes(SkipWhile(t, {"-"}))
    ELSE <<Head(t)>> \o CollapseDashes(Tail(t))

StripDashes(t) ==
    LET s == SkipWhile(t, {"-"})
    IN  SubSeq(s, 1, CHOOSE n \in 0..Len(s) :
                        /\ n = 0 \/ s[n] # "-"
                        /\ \A k \in (n + 1)..Len(s) : s[k] = "-")

Unknown == <<"unknown">>

\* official_website._slugify
ow_slugify(text) ==
    LET lower == StripWs([k \in DOMAIN text |-> Lower(text[k])])
        \* re.sub(r"[^\w\s-]", "", slug)
        kept == SelectSeq(lower, LAMBDA c : c \notin {".", ":"})
        \* re.sub(r"[\s_]+", "-", slug)
        dashed == [k \in DOMAIN kept |->
                      IF kept[k] \in Whitespace THEN "-" ELSE kept[k]]
        slug == StripDashes(CollapseDashes(dashed))
    IN  IF slug = <<>> THEN Unknown ELSE slug

\* fetch_section_text_discovery.slugify
slugify(text) ==
    LET lower == [k \in DOMAIN text |-> Lower(text[k])]
        \* re.sub(r"[^a-z0-9]+", "-", text.lower())
        dashed == [k \in DOMAIN lower |->
                      IF lower[k] \in {"0", "1", "a"} THEN lower[k]
                      ELSE "-"]
        slug == StripDashes(CollapseDashes(dashed))
    IN  IF slug = <<>> THEN Unknown
        ELSE SubSeq(slug, 1, IF Len(slug) < SlugChars THEN Len(slug)
                                ELSE SlugChars)

\* f"section-{..}"
SectionId(slug) == <<"section-">> \o slug

\* the Section the first pass builds from a match
PatternSection(num, rest) ==
    LET heading == StripWs(FirstLine(rest))
        body == StripWs(AfterFirstLine(rest))
    IN  [id |-> SectionId(ow_slugify(num)),
         number |-> num,
         heading |-> heading,
         text |-> clean_text(IF body # <<>> THEN body ELSE rest)]

RECURSIVE PatternPassAgain(_, _)
\* a first pass that does not look into seen
PatternPassAgain(elems, seen) ==
    IF elems = <<>> THEN <<>>
    ELSE LET elem == Head(elems)
             match == PatternMatch(StripWs(elem.text))
             num == clean_section_number(match.group1)
         IN  IF \/ elem.tag \notin PatternTags
                \/ ~match.matched
                \/ num = <<>>
                \/ Len(num) > MaxNumberChars
             THEN PatternPassAgain(Tail(elems), seen)
             ELSE <<PatternSection(num, match.group2)>>
                      \o PatternPassAgain(Tail(elems), seen \cup {num})

RECURSIVE PatternPassAnyLength(_, _)
\* a first pass that accepts a number of any length
PatternPassAnyLength(elems, seen) ==
    IF elems = <<>> THEN <<>>
    ELSE LET elem == Head(elems)
             match == PatternMatch(StripWs(elem.text))
             num == clean_section_number(match.group1)
         IN  IF \/ elem.tag \notin PatternTags
                \/ ~match.matched
                \/ num = <<>> \/ num \in seen
             THEN PatternPassAnyLength(Tail(elems), seen)
             ELSE <<PatternSection(num, match.group2)>>
                      \o PatternPassAnyLength(Tail(elems), seen \cup {num})

RECURSIVE PatternPass(_, _)
\* Strategy 1: the loop over the elements with a pattern tag
PatternPass(elems, seen) ==
    IF elems = <<>> THEN <<>>
    ELSE LET elem == Head(elems)
             match == PatternMatch(StripWs(elem.text))
             num == clean_section_number(match.group1)
         IN  IF \/ elem.tag \notin PatternTags
                \/ ~match.matched
                \/ num = <<>> \/ num \in seen
                \/ Len(num) > MaxNumberChars
             THEN PatternPass(Tail(elems), seen)
             ELSE <<PatternSection(num, match.group2)>>
                      \o PatternPass(Tail(elems), seen \cup {num})

RECURSIVE SiblingTexts(_)
\* the texts of the siblings up to the next heading element
SiblingTexts(elems) ==
    IF elems = <<>> \/ Head(elems).tag \in HeadingTags THEN <<>>
    ELSE LET t == StripWs(Head(elems).text)
         IN  (IF t = <<>> THEN <<>> ELSE <<t>>)
                 \o SiblingTexts(Tail(elems))

RECURSIVE JoinParagraphs(_)
\* "\n\n".join(body_parts)
JoinParagraphs(parts) ==
    IF parts = <<>> THEN <<>>
    ELSE IF Len(parts) = 1 THEN Head(parts)
    ELSE Head(parts) \o <<"nl", "nl">> \o JoinParagraphs(Tail(parts))

RECURSIVE HeadingPass(_, _)
\* Strategy 2: the loop over the heading elements
HeadingPass(elems, seen) ==
    IF elems = <<>> THEN <<>>
    ELSE LET elem == Head(elems)
             match == PatternMatch(StripWs(elem.text))
             num == clean_section_number(match.group1)
         IN  IF \/ elem.tag \notin HeadingTags
                \/ ~match.matched
                \/ num = <<>> \/ num \in seen
                \/ Len(num) > MaxNumberChars
             THEN HeadingPass(Tail(elems), seen)
             ELSE <<[id |-> SectionId(ow_slugify(num)),
                     number |-> num,
                     heading |-> StripWs(match.group2),
                     text |-> clean_text(JoinParagraphs(
                                  SiblingTexts(Tail(elems))))]>>
                      \o HeadingPass(Tail(elems), seen \cup {num})

\* the list extract_sections_from_soup returns
Extracted(doc) ==
    IF PatternPass(doc, {}) # <<>> THEN PatternPass(doc, {})
    ELSE HeadingPass(doc, {})

NoRecord == [id |-> <<>>, number |-> <<>>]

ExtIdle == [op |-> "none", doc |-> <<>>, sections |-> <<>>,
            record |-> NoRecord]

\* official_website.extract_sections_from_soup(soup)
extract_sections_from_soup(doc) ==
    /\ ext.op # "extract"
    /\ ext' = [ext EXCEPT !.op = "extract", !.doc = doc,
                          !.sections = Extracted(doc)]

\* write_content_json: the record of a number that is not yet in the file
new_section_record(number) ==
    /\ ext.record = NoRecord
    /\ ext' = [ext EXCEPT !.record = [id |-> SectionId(slugify(number)),
                                      number |-> number]]

---------------------------------------------------------------------------
(* The run_batch_fetch script: ingest_state for each state of the list    *)

\* source_type of a state in sources.yaml; "absent": the state is not there
BatchSourceTypes ==
    {"dc_council", "state_provided", "official_website", "nosuch", "absent"}

\* cls_map
BatchClasses == {"dc_council", "state_provided", "official_website"}

\* the states given on the command line, with what sources.yaml says
BatchLists == SeqUpTo(BatchSourceTypes, MaxStates) \ {<<>>}

\* what fetch, parse and write_state do for one state
BatchOutcomes == {"ok", "fetch raises", "parse raises", "write raises"}

\* ingest_state(slug): the third entry of the tuple it returns, with the
\* exception its message names, or the exception it raises
ingest_state(source_type, outcome) ==
    IF source_type = "absent"
    THEN [raised |-> "KeyError", result |-> "none", error |-> "none"]
    ELSE IF source_type \notin BatchClasses
    THEN [raised |-> "none", result |-> "unknown source type",
          error |-> "none"]
    ELSE IF ~(CacheArgsOf(source_type) \subseteq HttpCacheArgs)
    THEN [raised |-> "TypeError", result |-> "none", error |-> "none"]
    ELSE IF outcome # "ok"
    THEN [raised |-> "none", result |-> "ERROR", error |-> outcome]
    ELSE [raised |-> "none", result |-> "elapsed", error |-> "none"]

\* the body of the loop after ingest_state has returned: what it prints,
\* or the exception of the format f"{result[2]:.0f}" on a string
Printed(ret) ==
    IF ret.result = "ERROR"
    THEN [raised |-> "none", line |-> "FAILED", error |-> ret.error]
    ELSE IF ret.result = "elapsed"
    THEN [raised |-> "none", line |-> "sections", error |-> "none"]
    ELSE [raised |-> "ValueError", line |-> "none", error |-> "none"]

BatchIdle ==
    [states |-> <<>>, i |-> 0, lines |-> <<>>, raised |-> "none",
     failed |-> {}]

\* the script starts with its list of states
batch_start(states) ==
    /\ batch.i = 0
    /\ batch' = [BatchIdle EXCEPT !.states = states, !.i = 1]

\* one iteration of the loop over states
batch_loop(outcome) ==
    /\ batch.i \in 1..Len(batch.states)
    /\ batch.raised = "none"
    /\ LET ret == ingest_state(batch.states[batch.i], outcome)
           shown == Printed(ret)
           ok == ret.raised = "none" /\ ret.result = "elapsed"
       IN  batch' =
             [batch EXCEPT
                !.failed = IF ok THEN @ ELSE @ \cup {batch.i},
                !.raised = IF ret.raised # "none" THEN ret.raised
                           ELSE shown.raised,
                !.lines = IF ret.raised # "none" \/ shown.raised # "none"
                          THEN @
                          ELSE Append(@, [line |-> shown.line,
                                          error |-> shown.error]),
                !.i = IF ret.raised # "none" \/ shown.raised # "none"
                      THEN @ ELSE @ + 1]

---------------------------------------------------------------------------
(* process_state of the two text passes (fetch_section_text.py and        *)
(* fetch_section_text_discovery.py): one future per section url, the      *)
(* results collected in the order as_completed yields them, then one      *)
(* write to the chapter file                                              *)

\* the chapter file before the call: absent, or written by a parse
PoolFiles == {NoContent} \cup {<<s>> : s \in ParsedSections}

\* what the futures return, in the order they were submitted: one
\* (url, number, heading, text) per section url
FetchResults ==
    {results \in SeqUpTo(SectionData, MaxFutures) :
        /\ results # <<>>
        /\ \A i, j \in DOMAIN results :
              results[i].url = results[j].url => i = j}

\* the tuples in the order their futures completed
Collected(results, done) == [k \in DOMAIN done |-> results[done[k]]]

\* sections_by_chapter[key]: the tuples with text
WithText(tuples) == SelectSeq(tuples, LAMBDA d : d.text # <<>>)

\* the chapter file after the write that ends process_state
PoolWritten(kind, file, tuples) ==
    IF kind = "direct"
    THEN IF file = NoContent THEN file ELSE DirectMerged(file, tuples)
    ELSE IF WithText(tuples) = <<>> THEN file
    ELSE ContentMerged(file, WithText(tuples))

PoolIdle ==
    [kind |-> "none", file |-> NoContent, results |-> <<>>, done |-> <<>>,
     over |-> FALSE, out |-> NoContent]

\* process_state up to the end of the submit loop
pool_submit(kind, file, results) ==
    /\ pool.kind = "none"
    /\ pool' = [PoolIdle EXCEPT !.kind = kind, !.file = file,
                                !.results = results]

\* as_completed yields the future of results[k]
future_done(k) ==
    /\ pool.kind # "none"
    /\ k \in DOMAIN pool.results
    /\ k \notin Range(pool.done)
    /\ pool' = [pool EXCEPT !.done = Append(@, k)]

\* update_content_json_direct(state, results), or
\* write_content_json(state, sections_by_chapter)
pool_write ==
    /\ pool.kind # "none"
    /\ ~pool.over
    /\ Len(pool.done) = Len(pool.results)
    /\ pool' = [pool EXCEPT
                  !.over = TRUE,
                  !.out = PoolWritten(pool.kind, pool.file,
                                      Collected(pool.results, pool.done))]

\* the parts of the program that play no role in a specification are idle
RestStart ==
    /\ race = RaceIdle
    /\ MergeStart
    /\ CliStart
    /\ RawStart
    /\ presult = NoParse
    /\ disk = DiskIdle
    /\ ext = ExtIdle
    /\ batch = BatchIdle
    /\ pool = PoolIdle

---------------------------------------------------------------------------
(* Claim about concurrent use of HttpCache, checked under SpecRace *)

\* C11: when workers store a response for one url at the same time, the
\* final entry is last-writer-wins: once every put has returned, the body
\* file and the metadata file come from the same single put; and a concurrent
\* get_cached returns None or a body some put stored in full, never raising.
C11_LastWriterWins ==
    /\ ( /\ \A w \in Writers : race.wpc[w] = "idle"
         /\ race.puts # <<>> ) =>
            /\ race.bodyBy = race.metaBy
            /\ race.body = WriteText(race.puts[race.metaBy])
    /\ race.rpc = "done" =>
            /\ race.rexc = "none"
            /\ \/ race.rret = None
               \/ \E i \in DOMAIN race.puts : race.rret = race.puts[i]

---------------------------------------------------------------------------
(* Claims about the content chapter file, checked under SpecMerge *)

\* the sections of a sections list, none if the file does not exist
Stored(sections) == IF sections = NoContent THEN <<>> ELSE sections

\* no two stored sections carry the same number
DistinctNumbers(sections) ==
    \A i, j \in DOMAIN sections :
        sections[i].number = sections[j].number => i = j

\* the text the merge rule prescribes: incoming replaces stored if and only
\* if it is non-empty and strictly longer
Prescribed(stored, incoming) ==
    IF incoming # <<>> /\ TextLen(incoming) > TextLen(stored)
    THEN incoming ELSE stored

RECURSIVE PrescribedAll(_, _, _)
\* the rule applied to the tuples of sections that carry number, in order
PrescribedAll(stored, sections, number) ==
    IF sections = <<>> THEN stored
    ELSE PrescribedAll(
            IF Head(sections).number = number
            THEN Prescribed(stored, Head(sections).text) ELSE stored,
            Tail(sections), number)

\* update_content_json_direct(section_data) took old to new by the rule
DirectByRule(old, new, section_data) ==
    /\ \A i \in DOMAIN old :
         \E j \in DOMAIN new :
           /\ new[j].number = old[i].number
           /\ new[j].text =
                Prescribed(old[i].text,
                           Match(UrlLookup(section_data), old[i].number).text)
    /\ DirectMerged(new, section_data) = new

\* write_content_json(sections) took old to new by the rule
ContentByRule(old, new, sections) ==
    /\ \A i \in DOMAIN old :
         \E j \in DOMAIN new :
           /\ new[j].number = old[i].number
           /\ new[j].text = PrescribedAll(old[i].text, sections,
                                          old[i].number)
    /\ ContentMerged(new, sections) = new

\* C12: in update_content_json_direct and write_content_json every stored
\* section is found afterwards with its number and with the incoming text
\* matched with it if and only if that text is non-empty and strictly longer
\* than the stored text, and with its stored text otherwise (so equal text
\* changes nothing and empty text clears nothing); applying the same merge
\* again changes nothing.
C12_ReplacedIffLonger ==
    [][ /\ \A section_data \in SeqUpTo(SectionData, MaxIncoming) :
             ( /\ mop'.op = "update_content_json_direct"
               /\ store # NoContent
               /\ store' = DirectMerged(store, section_data) ) =>
                 DirectByRule(store, store', section_data)
        /\ \A sections \in SeqUpTo(ChapterSections, MaxIncoming) :
             ( /\ mop'.op = "write_content_json"
               /\ store' = ContentMerged(store, sections) ) =>
                 ContentByRule(Stored(store), store', sections) ]_vars

\* the rule of C12 holds for chapter files whose section numbers are distinct
MergeRuleWithoutDuplicates ==
    [][ DistinctNumbers(Stored(store)) =>
        /\ \A section_data \in SeqUpTo(SectionData, MaxIncoming) :
             ( /\ mop'.op = "update_content_json_direct"
               /\ store # NoContent
               /\ store' = DirectMerged(store, section_data) ) =>
                 DirectByRule(store, store', section_data)
        /\ \A sections \in SeqUpTo(ChapterSections, MaxIncoming) :
             ( /\ mop'.op = "write_content_json"
               /\ store' = ContentMerged(store, sections) ) =>
                 ContentByRule(Stored(store), store', sections) ]_vars

\* C13: across write_state, update_content_json_direct, write_content_json
\* and process_state (rescrape mode included), a stored section that is
\* still in the file afterwards holds its old text or a non-empty, strictly
\* longer one: its text never becomes shorter or empty.
C13_TextNeverRegresses ==
    [][ \A i \in DOMAIN Stored(store) :
          (\E j \in DOMAIN Stored(store') :
              store'[j].number = store[i].number) =>
          (\E j \in DOMAIN Stored(store') :
              /\ store'[j].number = store[i].number
              /\ \/ store'[j].text = store[i].text
                 \/ /\ store'[j].text # <<>>
                    /\ TextLen(store'[j].text) > TextLen(store[i].text)) ]_vars

\* the merge scripts alone never let a text regress in a chapter file whose
\* section numbers are distinct
MergeScriptsKeepText ==
    [][ ( /\ mop'.op \in {"update_content_json_direct", "write_content_json"}
          /\ DistinctNumbers(Stored(store)) ) =>
        \A i \in DOMAIN Stored(store) :
          \E j \in DOMAIN Stored(store') :
              /\ store'[j].number = store[i].number
              /\ \/ store'[j].text = store[i].text
                 \/ /\ store'[j].text # <<>>
                    /\ TextLen(store'[j].text) > TextLen(store[i].text) ]_vars

\* old is found in new with its id and number; its heading differs only if
\* it was empty, its text differs only if the new text is not empty, and
\* with the same text the whole record is the same
KeepsIdentity(old, new) ==
    \A i \in DOMAIN old :
      \E j \in DOMAIN new :
        /\ new[j].id = old[i].id
        /\ new[j].number = old[i].number
        /\ new[j].heading # old[i].heading => old[i].heading = ""
        /\ new[j].text # old[i].text => new[j].text # <<>>
        /\ new[j].text = old[i].text => new[j] = old[i]

\* C14: update_content_json_direct and write_content_json keep every stored
\* section with its id and number (a stub merged with non-empty text is that
\* record with the text); its heading changes only if the stored heading was
\* empty, and a section whose text is not replaced is left entirely unchanged.
C14_MergeKeepsIdentity ==
    [][ ( /\ mop'.op \in {"update_content_json_direct", "write_content_json"}
          /\ store # NoContent ) => KeepsIdentity(store, store') ]_vars

\* the identity part of C14 holds for chapter files with distinct numbers
IdentityWithoutDuplicates ==
    [][ ( /\ mop'.op \in {"update_content_json_direct", "write_content_json"}
          /\ store # NoContent
          /\ DistinctNumbers(store) ) => KeepsIdentity(store, store') ]_vars

---------------------------------------------------------------------------
(* Claims about the ingest command and BaseIngestor.ingest, checked under  *)
(* SpecCli                                                                 *)

\* C15: ingest() calls fetch() once, then parse() once with the location
\* fetch() returned, and returns what parse() returned; parse() is not
\* started before fetch() has returned, and when fetch() raises parse() is
\* not called and the caller gets the exception of fetch()
C15_IngestFetchThenParse ==
    LET g == job.ing
    IN  /\ g.fetches <= 1 /\ g.parses <= 1
        /\ g.parses = 1 =>
              /\ g.fetches = 1
              /\ g.fetched \in RawPaths
              /\ g.parseArg = g.fetched
        /\ g.status = "returned" =>
              /\ g.fetches = 1 /\ g.parses = 1
              /\ g.parsed \in StateCodes
              /\ g.result = g.parsed
        /\ (g.status = "raised" /\ g.parses = 0) =>
              /\ g.fetches = 1
              /\ g.exc = "FetchError"
              /\ \E k \in 1..Len(job.failures) :
                    job.failures[k][2] = "FetchError"
        /\ (\E k \in 1..Len(job.failures) : job.failures[k][2] = "FetchError")
              => \E k \in 1..Len(job.failures) :
                    /\ job.failures[k][2] = "FetchError"
                    /\ \A n \in 1..Len(job.worked) :
                          job.worked[n] # <<"parse", job.failures[k][1]>>

\* the second jurisdiction is parsed from the location its fetch() returned
\* after the fetch() of the first one has raised
C15_Witness ==
    /\ job.ing.status = "returned"
    /\ job.ing.parseArg = "raw2"
    /\ job.ing.result = "code2"
    /\ Len(job.failures) = 1
    /\ job.failures[1][2] = "FetchError"

\* the jurisdictions the loop has been through
Attempted(j) == SubSeq(j.states_to_process, 1, j.i - 1)

SlugsOf(failures) == {failures[k][1] : k \in 1..Len(failures)}

\* every attempted jurisdiction is in exactly one of the two lists, in the
\* order of the selection, and every failure is logged and echoed
OneListEach(j) ==
    LET InSuccesses(slug) == slug \in Range(j.successes)
        InFailures(slug) == slug \in SlugsOf(j.failures)
    IN  /\ j.successes = SelectSeq(Attempted(j), InSuccesses)
        /\ [k \in 1..Len(j.failures) |-> j.failures[k][1]]
              = SelectSeq(Attempted(j), InFailures)
        /\ Range(j.successes) \cap SlugsOf(j.failures) = {}
        /\ Len(j.successes) + Len(j.failures) = Len(Attempted(j))
        /\ SlugsOf(j.failures) \subseteq Range(j.logged)
        /\ SlugsOf(j.failures) \subseteq Range(j.echoed)

\* C17: an exception raised while the ingestor of a jurisdiction is built,
\* or in its fetch, parse or write, does not stop the loop: every selected
\* jurisdiction is attempted in order and ends in exactly one of successes
\* and failures, every failure is logged and reported with its slug, and the
\* master index is rebuilt after the loop
C17_FailuresIsolated ==
    /\ job.pc \notin {"start", "exit"} => OneListEach(job)
    /\ job.pc \in {"index", "done", "crashed"} =>
          /\ Attempted(job) = job.states_to_process
          /\ Len(job.successes) + Len(job.failures)
                = Len(job.states_to_process)
    /\ job.pc # "crashed"
    /\ job.pc = "done" =>
          /\ job.index = "rebuilt"
          /\ job.reported = job.failures

\* the loop itself keeps to C17: it goes through every selected jurisdiction
\* and puts each in one list, whatever has raised
LoopIsolatesFailures ==
    /\ job.pc \notin {"start", "exit"} => OneListEach(job)
    /\ job.pc \in {"index", "done", "crashed"} =>
          /\ Attempted(job) = job.states_to_process
          /\ Len(job.successes) + Len(job.failures)
                = Len(job.states_to_process)
    /\ job.pc = "done" =>
          /\ job.index = "rebuilt"
          /\ job.reported = job.failures

\* C18: when the configuration of a selected jurisdiction names an unknown
\* source kind, no jurisdiction is fetched, parsed or written in that run
C18_UnknownKindFailsFast ==
    (\E k \in 1..Len(job.states_to_process) :
        job.sources[SlugIndex(job.states_to_process[k])] \notin ingestor_map)
    => job.worked = <<>>

---------------------------------------------------------------------------
(* Claim about re-running fetch(), checked under SpecFetch *)

\* the raw material of an earlier fetch() is there
RawPresent == raw.returned # Nothing /\ raw.content # NoFile

\* this step is a fetch() call that found the raw material of an earlier
\* call, made no network request, left the material as it was and returned
\* the location the earlier call returned
Rerun ==
    /\ fcall'.exc = "none"
    /\ ~fcall'.network
    /\ raw'.content = raw.content
    /\ fcall'.ret = raw.returned

\* C16: when the raw material of an earlier fetch() of the jurisdiction is
\* present, another fetch() issues no network request, leaves the raw
\* material unchanged and returns the same raw location
C16_FetchRerunnable ==
    [][ (fcall'.n = fcall.n + 1 /\ RawPresent) => Rerun ]_vars

\* the two ingestors that download an archive keep to C16
ArchiveFetchRerunnable ==
    [][ ( /\ fcall'.n = fcall.n + 1
          /\ RawPresent
          /\ raw.kind \in {"dc_council", "law_resource_org"} ) => Rerun ]_vars

---------------------------------------------------------------------------
(* Claims about parse(), checked under SpecParse *)

\* the file as parse() has it after skipping it
SkippedFile(file) ==
    IF file.bad THEN EmptyFile ELSE file

\* the raw directory with every failing file taken as holding nothing
Skipped(tree) ==
    [d \in 1..Len(tree) |->
        [index |-> IF tree[d].index.bad THEN NoIndex ELSE tree[d].index,
         files |-> [k \in 1..Len(tree[d].files) |->
                       SkippedFile(tree[d].files[k])]]]

HasBadFile(tree) ==
    \E d \in 1..Len(tree) :
        \/ tree[d].index.bad
        \/ \E k \in 1..Len(tree[d].files) : tree[d].files[k].bad

\* C19: a failure while one chapter or page file is read or parsed is caught
\* and only that file is skipped: parse() does not raise and returns what
\* the files that did succeed give
C19_SubDocumentFailureSkipped ==
    presult.op # "none" =>
        /\ ~presult.raised
        /\ presult.titles = TitlesFrom(presult.op, Skipped(presult.tree), 1)

\* the parsers that catch the failure of a file keep to C19
CatchingParsersSkip ==
    (presult.op # "none" /\ presult.op # "justia_impl") =>
        /\ ~presult.raised
        /\ presult.titles = TitlesFrom(presult.op, Skipped(presult.tree), 1)

NoEmptyNodes(titles) ==
    \A t \in 1..Len(titles) :
        /\ titles[t].chapters # <<>>
        /\ \A c \in 1..Len(titles[t].chapters) :
              titles[t].chapters[c].sections # <<>>

NumbersNotEmpty(titles) ==
    \A t \in 1..Len(titles) :
        \A c \in 1..Len(titles[t].chapters) :
            \A n \in 1..Len(titles[t].chapters[c].sections) :
                titles[t].chapters[c].sections[n].number # <<>>

\* C20: a StateCode returned by parse() has no Title without Chapters and no
\* Chapter without Sections, and every Section has a non-empty number
C20_NoEmptyNodes ==
    (presult.op # "none" /\ ~presult.raised) =>
        /\ NoEmptyNodes(presult.titles)
        /\ NumbersNotEmpty(presult.titles)

\* no parser returns an empty Title or Chapter, and the parsers of HTML
\* pages return no Section with an empty number
NoEmptyNodesButDcNumbers ==
    (presult.op # "none" /\ ~presult.raised) =>
        /\ NoEmptyNodes(presult.titles)
        /\ presult.op # "dc_council" => NumbersNotEmpty(presult.titles)

---------------------------------------------------------------------------
(* Claims about the data directory, checked under SpecDisk *)

WrittenPaths(state_code) ==
    {build_content_chapters(state_code)[k].path :
        k \in DOMAIN build_content_chapters(state_code)}

FilesOnDisk(files) == {path \in Paths : files[path] # NoFile}

\* the number of Section records stored in the files at the paths
RECURSIVE StoredCount(_, _)
StoredCount(files, paths) ==
    IF paths = {} THEN 0
    ELSE LET path == CHOOSE p \in paths : TRUE
         IN  Len(files[path]) + StoredCount(files, paths \ {path})

DistinctPaths(state_code) ==
    Cardinality(WrittenPaths(state_code))
        = Len(build_content_chapters(state_code))

OneFilePerChapter ==
    /\ Cardinality(WrittenPaths(disk.tree)) = disk.manifest.chapters
    /\ \A i \in DOMAIN disk.tree :
          \A j \in DOMAIN disk.tree[i].chapters :
              disk.files[ChapterPath(disk.tree[i].id,
                                     disk.tree[i].chapters[j].id)]
                  = disk.tree[i].chapters[j].sections
    /\ StoredCount(disk.files, WrittenPaths(disk.tree))
          = disk.manifest.sections

\* C21: after write_state the number of distinct content files written is
\* the manifest's stats.chapters, the file at <title.id>/<chapter.id>.json
\* holds exactly the Sections of that Chapter in order, and the Sections of
\* the written files total the manifest's stats.sections
C21_OneFilePerChapter ==
    disk.op = "write_state" => OneFilePerChapter

\* the same, for the trees in which no two Chapters of a Title share an id
OneFilePerDistinctChapter ==
    (disk.op = "write_state" /\ DistinctPaths(disk.tree))
        => OneFilePerChapter

\* C29: after write_state the content directory holds chapter files only
\* for the Chapters of the tree just written
C29_NoStaleChapterFiles ==
    disk.op = "write_state" =>
        FilesOnDisk(disk.files) \subseteq WrittenPaths(disk.tree)

\* the same, for the first run into an empty directory
NoStaleFilesOnFirstRun ==
    (disk.op = "write_state" /\ disk.runs = 1) =>
        FilesOnDisk(disk.files) \subseteq WrittenPaths(disk.tree)

\* the chapter nodes of toc.json, as the paths of their files
TocPaths(toc) ==
    UNION {{ChapterPath(toc[i].id, toc[i].children[j].id) :
               j \in DOMAIN toc[i].children} : i \in DOMAIN toc}

\* the section children toc.json lists for the file at a path
TocSections(toc, path) ==
    UNION {UNION {IF ChapterPath(toc[i].id, toc[i].children[j].id) = path
                  THEN Range(toc[i].children[j].children) ELSE {} :
                     j \in DOMAIN toc[i].children} : i \in DOMAIN toc}

ArtifactsAgree ==
    /\ \A path \in FilesOnDisk(disk.files) :
          /\ path \in TocPaths(disk.toc)
          /\ Range(disk.files[path]) \subseteq TocSections(disk.toc, path)
    /\ disk.manifest.chapters = Cardinality(FilesOnDisk(disk.files))
    /\ disk.manifest.sections
          = StoredCount(disk.files, FilesOnDisk(disk.files))

\* C28: after any sequence of write_state, update_content_json_direct and
\* write_content_json on a jurisdiction that has its manifest.json and
\* toc.json, every content file and every stored section is listed in
\* toc.json, and the manifest's stats.chapters and stats.sections are the
\* numbers of content files and of stored sections
C28_ArtifactsAgree ==
    disk.indexed => ArtifactsAgree

\* the artifacts agree after the first write_state of a tree in which no
\* two Chapters of a Title share an id
ArtifactsAgreeAfterFirstWrite ==
    (disk.op = "write_state" /\ disk.runs = 1 /\ DistinctPaths(disk.tree))
        => ArtifactsAgree

\* update_content_json_direct keeps the artifacts in agreement
DirectUpdateKeepsAgreement ==
    [][ (disk'.op = "update_content_json_direct" /\ ArtifactsAgree)
            => ArtifactsAgree' ]_vars

---------------------------------------------------------------------------
(* Claims about the Sections of a document, checked under SpecExtract,   *)
(* and under SpecIds where the discovery pass takes part                  *)

\* the (id, number) of every Section record of the state
Records ==
    {[id |-> ext.sections[k].id, number |-> ext.sections[k].number] :
        k \in DOMAIN ext.sections}
    \cup (IF ext.record = NoRecord THEN {} ELSE {ext.record})

\* C22: a Section's id is a function of its number: two Section records
\* with the same number have the same id, whether extract_sections_from_soup
\* or write_content_json of the discovery pass built them
C22_IdFunctionOfNumber ==
    \A a, b \in Records : a.number = b.number => a.id = b.id

\* the same, among the Sections of one document
IdFunctionWithinDocument ==
    \A i, j \in DOMAIN ext.sections :
        ext.sections[i].number = ext.sections[j].number
            => ext.sections[i].id = ext.sections[j].id

\* the pass that built the list, as the tags it looks at
ScannedTags(doc) ==
    IF PatternPass(doc, {}) # <<>> THEN PatternTags ELSE HeadingTags

NumberAt(doc, i) ==
    clean_section_number(PatternMatch(StripWs(doc[i].text)).group1)

\* the elements of the document in which the number matches
Occurrences(doc, number) ==
    {i \in DOMAIN doc :
        /\ doc[i].tag \in ScannedTags(doc)
        /\ PatternMatch(StripWs(doc[i].text)).matched
        /\ NumberAt(doc, i) = number}

First(indices) == CHOOSE i \in indices : \A j \in indices : i <= j

\* the Section of element i alone, with the siblings that follow it
BuiltFrom(doc, i) ==
    IF PatternPass(doc, {}) # <<>>
    THEN Head(PatternPass(<<doc[i]>>, {}))
    ELSE Head(HeadingPass(SubSeq(doc, i, Len(doc)), {}))

LongTokens(doc) ==
    {i \in DOMAIN doc :
        /\ PatternMatch(StripWs(doc[i].text)).matched
        /\ Len(NumberAt(doc, i)) > MaxNumberChars}

\* C24: no Section returned by extract_sections_from_soup has a number of
\* more than 30 characters, and an element whose matched number token has
\* more than 30 characters produces no Section
C24_NoLongNumber ==
    ext.op = "extract" =>
        /\ \A k \in DOMAIN ext.sections :
              Len(ext.sections[k].number) <= MaxNumberChars
        /\ Len(ext.sections)
              <= Cardinality(DOMAIN ext.doc \ LongTokens(ext.doc))

\* a document with a token of 31 characters and a Section of another element
C24_Witness ==
    /\ ext.op = "extract"
    /\ LongTokens(ext.doc) # {}
    /\ ext.sections # <<>>

\* the document whose only text block is
\* "(sign) 1-1-10. Short title. This chapter shall be known as..."
ShortTitleDocument ==
    <<[tag |-> "p",
       text |-> <<"sign", "sp", "1", "-", "1", "-", "1", "0", ".", "sp",
                  "Short title.", "sp",
                  "This chapter shall be known as...">>]>>

\* C25: for the document whose only text block is "(sign) 1-1-10. Short
\* title. This chapter shall be known as..." the engine returns exactly one
\* Section, with number "1-1-10", heading "Short title." and a body that
\* begins "This chapter shall be known as..."
C25_ShortTitleScenario ==
    (ext.op = "extract" /\ ext.doc = ShortTitleDocument) =>
        /\ Len(ext.sections) = 1
        /\ ext.sections[1].number = <<"1", "-", "1", "-", "1", "0">>
        /\ ext.sections[1].heading = <<"Short title.">>
        /\ Head(ext.sections[1].text) = "This chapter shall be known as..."

\* what the engine returns for that document: one Section, its number with
\* the dot, its heading and its body the whole line after the number
ShortTitleAsBuilt ==
    (ext.op = "extract" /\ ext.doc = ShortTitleDocument) =>
        /\ Len(ext.sections) = 1
        /\ ext.sections[1].id = <<"section-", "1", "-", "1", "-", "1", "0">>
        /\ ext.sections[1].number = <<"1", "-", "1", "-", "1", "0", ".">>
        /\ ext.sections[1].heading =
              <<"Short title.", "sp", "This chapter shall be known as...">>
        /\ ext.sections[1].text = ext.sections[1].heading

\* C26: no two Sections of the list extract_sections_from_soup returns for
\* a document share an id
C26_DistinctIds ==
    ext.op = "extract" =>
        \A i, j \in DOMAIN ext.sections :
            ext.sections[i].id = ext.sections[j].id => i = j

---------------------------------------------------------------------------
(* Claim about the run_batch_fetch script, checked under SpecBatch *)

\* the script has ended: the loop is through, or an exception has left it
BatchOver ==
    batch.i > 0 /\ (batch.i > Len(batch.states) \/ batch.raised # "none")

EachStateProcessed ==
    /\ batch.raised = "none"
    /\ Len(batch.lines) = Len(batch.states)
    /\ \A k \in DOMAIN batch.states :
          batch.lines[k].line = IF k \in batch.failed THEN "FAILED"
                                ELSE "sections"

\* C27: in run_batch_fetch a failure for one state (unknown source type, an
\* error while constructing the ingestor, an exception in fetch, parse or
\* write) is reported for that state only and every remaining state of the
\* list is still processed
C27_BatchFailuresIsolated ==
    BatchOver => EachStateProcessed

\* the same, when every state of the list has a source type with a class
\* whose constructor returns: an exception in fetch, parse or write_state
\* is reported for its state and the loop goes on
BatchStepFailuresIsolated ==
    (/\ BatchOver
     /\ \A k \in DOMAIN batch.states :
           batch.states[k] \in {"dc_council", "state_provided"})
        => EachStateProcessed

---------------------------------------------------------------------------
(* Claim about the worker threads of process_state, checked under SpecPool *)

\* the chapter file the call writes when the futures complete in the order
\* they were submitted
InSubmissionOrder ==
    PoolWritten(pool.kind, pool.file, pool.results)

\* C30: the content file process_state writes does not depend on the order
\* in which the fetches complete: every completion order yields the stored
\* text and the section order that the submission order yields
C30_CompletionOrderFree ==
    pool.over => pool.out = InSubmissionOrder

NumbersDiffer(results) ==
    \A i, j \in DOMAIN results :
        results[i].number = results[j].number => i = j

\* the keys under which update_content_json_direct files a tuple
KeysOf(d) == {d.number, UrlSlug(d.url)}

\* process_state of fetch_section_text does not depend on the completion
\* order when no two results share a lookup key
DirectOrderFreeOnDistinctKeys ==
    (/\ pool.over /\ pool.kind = "direct"
     /\ \A i, j \in DOMAIN pool.results :
           KeysOf(pool.results[i]) \cap KeysOf(pool.results[j]) # {}
               => i = j)
        => pool.out = InSubmissionOrder

\* process_state of the discovery pass stores the same sections with the
\* same texts in every completion order when the numbers differ; only their
\* order in the file changes
DiscoveryOrderOnly ==
    (pool.over /\ pool.kind = "discovery" /\ NumbersDiffer(pool.results))
        => Range(pool.out) = Range(InSubmissionOrder)

---------------------------------------------------------------------------
(* Specifications *)

CacheNext ==
    \/ Tick /\ UNCHANGED offCache
    \/ \E u \in Urls, body \in Bodies :
          put(u, body, 200) /\ UNCHANGED offCache
    \/ \E u \in Urls : get_cached(u) /\ UNCHANGED offCache
    \/ \E u \in Urls : fetch(u) /\ UNCHANGED offCache
    \/ \E u \in Urls : fetch_bytes(u) /\ UNCHANGED offCache

\* one HttpCache used by one caller
CacheInit ==
    CacheStart /\ LimStart /\ retry = RetryIdle /\ SecStart /\ RestStart

SpecCache == CacheInit /\ [][CacheNext]_vars

LimiterNext ==
    \/ wait /\ UNCHANGED offLimiter
    \/ ClockTick /\ UNCHANGED offLimiter

\* one RateLimiter used by one caller
LimiterInit ==
    CacheStart /\ LimStart /\ retry = RetryIdle /\ SecStart /\ RestStart

SpecLimiter == LimiterInit /\ [][LimiterNext]_vars

ThreadsNext ==
    \/ ClockTick /\ UNCHANGED offLimiter
    \/ \E t \in Callers : w_begin(t) /\ UNCHANGED offLimiter
    \/ \E t \in Callers : w_test(t) /\ UNCHANGED offLimiter
    \/ \E t \in Callers : w_pop(t) /\ UNCHANGED offLimiter
    \/ \E t \in Callers : w_check(t) /\ UNCHANGED offLimiter
    \/ \E t \in Callers : w_head(t) /\ UNCHANGED offLimiter
    \/ \E t \in Callers : w_sleep(t) /\ UNCHANGED offLimiter
    \/ \E t \in Callers : w_append(t) /\ UNCHANGED offLimiter

\* one RateLimiter shared by threads calling wait()
ThreadsInit ==
    CacheStart /\ ConcStart("threads") /\ retry = RetryIdle /\ SecStart /\ RestStart

SpecThreads == ThreadsInit /\ [][ThreadsNext]_vars

TasksNext ==
    \/ ClockTick /\ UNCHANGED offLimiter
    \/ \E t \in Callers : a_begin(t) /\ UNCHANGED offLimiter
    \/ \E t \in Callers : w_sleep(t) /\ UNCHANGED offLimiter
    \/ \E t \in Callers : a_resume(t) /\ UNCHANGED offLimiter

\* one RateLimiter shared by asyncio tasks calling async_wait()
TasksInit ==
    CacheStart /\ ConcStart("tasks") /\ retry = RetryIdle /\ SecStart /\ RestStart

SpecTasks == TasksInit /\ [][TasksNext]_vars

RetryNext ==
    \/ Tick /\ UNCHANGED offCache
    \/ \E kind \in RetryKinds, u \in Urls :
          retry_start(kind, u) /\ UNCHANGED offRetry
    \/ retry_attempt /\ UNCHANGED offRetry
    \/ \E u \in Urls :
          retry.pc # "try" /\ fetch_bytes(u) /\ UNCHANGED offCache

\* one ingestor fetching pages through its retry loop and its HttpCache
RetryInit ==
    CacheStart /\ LimStart /\ retry = RetryIdle /\ SecStart /\ RestStart

SpecRetry == RetryInit /\ [][RetryNext]_vars

SectionsNext ==
    \/ \E u \in Urls :
          fae_begin(u) /\ UNCHANGED offSections
    \/ curl_attempt /\ UNCHANGED offSections

\* one worker of fetch_section_text.py fetching section pages
SectionsInit ==
    CacheStart /\ LimStart /\ retry = RetryIdle /\ SecStart /\ RestStart

SpecSections == SectionsInit /\ [][SectionsNext]_vars

RaceNext ==
    \/ Tick /\ UNCHANGED offCache
    \/ \E w \in Writers, body \in RaceBodies :
          p_call(w, body) /\ UNCHANGED offRace
    \/ \E w \in Writers : p_open_body(w) /\ UNCHANGED offRace
    \/ \E w \in Writers : p_write_body(w) /\ UNCHANGED offRace
    \/ \E w \in Writers : p_stamp(w) /\ UNCHANGED offRace
    \/ \E w \in Writers : p_open_meta(w) /\ UNCHANGED offRace
    \/ \E w \in Writers : p_write_meta(w) /\ UNCHANGED offRace
    \/ g_call /\ UNCHANGED offRace
    \/ g_exists /\ UNCHANGED offRace
    \/ g_read_meta /\ UNCHANGED offRace
    \/ g_read_body /\ UNCHANGED offRace

\* one HttpCache shared by two writers and a reader
RaceInit ==
    CacheStart /\ LimStart /\ retry = RetryIdle /\ SecStart /\ RestStart

SpecRace == RaceInit /\ [][RaceNext]_vars

MergeNext ==
    \/ \E sections \in SeqUpTo(ParsedSections, MaxSections) :
          write_state(sections) /\ UNCHANGED offMerge
    \/ \E section_data \in SeqUpTo(SectionData, MaxIncoming) :
          update_content_json_direct(section_data) /\ UNCHANGED offMerge
    \/ \E sections \in SeqUpTo(ChapterSections, MaxIncoming) :
          write_content_json(sections) /\ UNCHANGED offMerge
    \/ \E rescrape \in BOOLEAN, results \in [Numbers -> FetchTextResults] :
          process_state(rescrape, results) /\ UNCHANGED offMerge

\* the content chapter file of one jurisdiction and the scripts writing it
MergeInit ==
    CacheStart /\ LimStart /\ retry = RetryIdle /\ SecStart /\ RestStart

SpecMerge == MergeInit /\ [][MergeNext]_vars

CliNext ==
    \/ \E n \in 1..MaxStates, sel \in Selections,
          data_dir_exists \in BOOLEAN :
          \E sources \in [1..n -> SourceTypes] :
             ingest(sources, sel, data_dir_exists) /\ UNCHANGED offCli
    \/ get_ingestor /\ UNCHANGED offCli
    \/ \E outcome \in FetchOutcomes : ingest_fetch(outcome) /\ UNCHANGED offCli
    \/ \E outcome \in ParseOutcomes : ingest_parse(outcome) /\ UNCHANGED offCli
    \/ \E outcome \in WriteOutcomes : write(outcome) /\ UNCHANGED offCli
    \/ update_master_index /\ UNCHANGED offCli

\* one run of the ingest command
CliInit ==
    CacheStart /\ LimStart /\ retry = RetryIdle /\ SecStart /\ RestStart

SpecCli == CliInit /\ [][CliNext]_vars

FetchNext ==
    \/ Tick /\ UNCHANGED offCache
    \/ dc_fetch /\ UNCHANGED offRaw
    \/ lro_fetch /\ UNCHANGED offRaw
    \/ justia_fetch /\ UNCHANGED offRaw

\* the ingestor of one jurisdiction, its fetch() called again and again
FetchInit ==
    CacheStart /\ LimStart /\ retry = RetryIdle /\ SecStart /\ RestStart

SpecFetch == FetchInit /\ [][FetchNext]_vars

ParseNext ==
    \/ /\ presult.op = "none"
       /\ \E tree \in Trees : generic_parse(tree) /\ UNCHANGED offParse
    \/ /\ presult.op = "none"
       /\ \E tree \in Trees : parse_justia_impl(tree) /\ UNCHANGED offParse
    \/ /\ presult.op = "none"
       /\ \E tree \in Trees : justia_parse(tree) /\ UNCHANGED offParse
    \/ /\ presult.op = "none"
       /\ \E tree \in Trees : dc_parse(tree) /\ UNCHANGED offParse

\* one parse() call on the raw directory of one jurisdiction
ParseInit ==
    CacheStart /\ LimStart /\ retry = RetryIdle /\ SecStart /\ RestStart

SpecParse == ParseInit /\ [][ParseNext]_vars

DiskNext ==
    \/ /\ disk.runs < MaxRuns
       /\ \E state_code \in StateTrees :
             normalizer_write_state(state_code) /\ UNCHANGED offDisk
    \/ /\ disk.runs < MaxRuns
       /\ \E sections_by_chapter \in KeyedSections :
             discovery_write_content_json(sections_by_chapter)
             /\ UNCHANGED offDisk
    \/ /\ disk.runs < MaxRuns
       /\ direct_update_content_json /\ UNCHANGED offDisk

\* the data directory of one jurisdiction, empty before the first run
DiskInit ==
    CacheStart /\ LimStart /\ retry = RetryIdle /\ SecStart /\ RestStart

SpecDisk == DiskInit /\ [][DiskNext]_vars

ExtractNext ==
    /\ ext.op # "extract"
    /\ \E doc \in Documents :
          extract_sections_from_soup(doc) /\ UNCHANGED offExtract

\* one document parsed by the official-website ingestor
ExtractInit ==
    CacheStart /\ LimStart /\ retry = RetryIdle /\ SecStart /\ RestStart

SpecExtract == ExtractInit /\ [][ExtractNext]_vars

IdsNext ==
    \/ ExtractNext
    \/ \E number \in NumberRuns :
          new_section_record(number) /\ UNCHANGED offExtract

\* one document parsed by the official-website ingestor and one new record
\* built by the discovery pass, in either order
IdsInit ==
    CacheStart /\ LimStart /\ retry = RetryIdle /\ SecStart /\ RestStart

SpecIds == IdsInit /\ [][IdsNext]_vars

BatchNext ==
    \/ \E states \in BatchLists : batch_start(states) /\ UNCHANGED offBatch
    \/ \E outcome \in BatchOutcomes :
          batch_loop(outcome) /\ UNCHANGED offBatch

\* the script before it starts
BatchInit ==
    CacheStart /\ LimStart /\ retry = RetryIdle /\ SecStart /\ RestStart

SpecBatch == BatchInit /\ [][BatchNext]_vars

PoolNext ==
    \/ /\ pool.kind = "none"
       /\ \E kind \in {"direct", "discovery"}, file \in PoolFiles,
             results \in FetchResults :
             pool_submit(kind, file, results) /\ UNCHANGED offPool
    \/ \E k \in 1..MaxFutures : future_done(k) /\ UNCHANGED offPool
    \/ pool_write /\ UNCHANGED offPool

\* one process_state call on one chapter file
PoolInit ==
    CacheStart /\ LimStart /\ retry = RetryIdle /\ SecStart /\ RestStart

SpecPool == PoolInit /\ [][PoolNext]_vars
=============================================================================
